---- MODULE Spec2Model ----
(***************************************************************************)
(* Model of the NetCores MCP bridge: the HTTP client with its retry loop   *)
(* (client.js), the tool dispatcher and its eight handlers (tools.js) and  *)
(* the tools/call request handler of the MCP server (server.js).           *)
(*                                                                         *)
(* JavaScript values are tagged records, so that the dynamic checks of the *)
(* code (truthiness, default parameters, property access on undefined)     *)
(* are computed instead of assumed.  A text is a sequence of string        *)
(* tokens; an emoji is the token "U+<code point>".                         *)
(***************************************************************************)
EXTENDS Integers, Sequences, FiniteSets, TLC

(***************************************************************************)
(* Bounds of the model                                                     *)
(***************************************************************************)
\* largest retryAttempts value passed in the constructor options
MaxRetryOption == 2
\* longest trend series in a response
MaxPoints == 3
\* ASN numbers are drawn from 1..MaxAsn
MaxAsn == 3
\* largest in-range limit argument tried
MaxLimit == 3
\* invocations started together on one client
MaxCalls == 2
\* no invocation is followed beyond this many attempts
AttemptCap == 4
\* changes a caller makes to the lists of definitions it was given
MaxChanges == 2

(***************************************************************************)
(* Program constants                                                       *)
(***************************************************************************)
DefaultRetryAttempts == 3
DefaultRetryDelay == 1000
MultiTrendDefaultLimit == 10
\* (variant: the default of the other trend handler)
AsnTrendDefaultLimitOfMulti == MultiTrendDefaultLimit
AsnTrendDefaultLimit == 20
LimitMinimum == 0
LimitMaximum == 1000
AsnsMinItems == 1
AsnsMaxItems == 10

(***************************************************************************)
(* JavaScript values                                                       *)
(***************************************************************************)
Undefined == [t |-> "undefined"]
Null == [t |-> "null"]
JInt(n) == [t |-> "integer", v |-> n]
JStr(s) == [t |-> "string", v |-> s]
JBool(b) == [t |-> "boolean", v |-> b]
JArr(s) == [t |-> "array", v |-> s]
JObj(r) == [t |-> "object", v |-> r]
\* a number with a fraction: v is the value in ten-thousandths
JNum(m) == [t |-> "number", v |-> m]
\* an object whose key order matters: keys is the order of the JSON text, and
\* indexKeys tells that the keys are canonical integers (v is then a function
\* on these integers)
JOrd(keys, r, indexKeys) == [t |-> "object", v |-> r, keys |-> keys, indexKeys |-> indexKeys]
EmptyObj == JObj(<<>>)

\* o.f for an object o (undefined when the property is missing)
Get(o, f) == IF o.t = "object" /\ f \in DOMAIN o.v THEN o.v[f] ELSE Undefined

\* reading a property of undefined or null throws a TypeError
Nullish(x) == x.t \in {"undefined", "null"}

\* ToBoolean
Truthy(x) ==
  CASE x.t = "undefined" -> FALSE
    [] x.t = "null" -> FALSE
    [] x.t = "integer" -> x.v # 0
    [] x.t = "number" -> x.v # 0
    [] x.t = "string" -> x.v # ""
    [] x.t = "boolean" -> x.v
    [] OTHER -> TRUE

\* a || b
OrElse(a, b) == IF Truthy(a) THEN a ELSE b

\* a default parameter or destructuring default: used only for undefined
Default(a, d) == IF a = Undefined THEN d ELSE a

RECURSIVE Join(_, _)
\* the tokens of s separated by sep
Join(s, sep) ==
  IF Len(s) = 0 THEN <<>>
  ELSE IF Len(s) = 1 THEN <<s[1]>>
  ELSE <<s[1], sep>> \o Join(Tail(s), sep)

RECURSIVE Flatten(_)
Flatten(ss) == IF Len(ss) = 0 THEN <<>> ELSE Head(ss) \o Flatten(Tail(ss))

RECURSIVE Str(_)
\* ToString, as the tokens of the resulting text
Str(x) ==
  CASE x.t = "undefined" -> <<"undefined">>
    [] x.t = "null" -> <<"null">>
    [] x.t = "integer" -> <<ToString(x.v)>>
    [] x.t = "string" -> <<x.v>>
    [] x.t = "boolean" -> <<IF x.v THEN "true" ELSE "false">>
    [] x.t = "array" ->
         Flatten([i \in 1..Len(x.v) |->
                    (IF Nullish(x.v[i]) THEN <<>> ELSE Str(x.v[i]))
                    \o (IF i < Len(x.v) THEN <<",">> ELSE <<>>)])
    [] OTHER -> <<"[object Object]">>

\* Array.prototype.slice(start) with one argument
Slice(s, start) ==
  LET len == Len(s)
      k == IF start < 0
           THEN (IF len + start < 0 THEN 0 ELSE len + start)
           ELSE (IF start > len THEN len ELSE start)
  IN SubSeq(s, k + 1, len)

\* -x of a number
Neg(n) == 0 - n

(***************************************************************************)
(* Texts                                                                   *)
(***************************************************************************)
CrossMark == "U+274C"
CheckMark == "U+2705"

EndsWith(text, suffix) ==
  /\ Len(text) >= Len(suffix)
  /\ SubSeq(text, Len(text) - Len(suffix) + 1, Len(text)) = suffix

Contains(text, part) ==
  \E i \in 0..(Len(text) - Len(part)) : SubSeq(text, i + 1, i + Len(part)) = part

(***************************************************************************)
(* client.js: NetCoresAPIClient                                            *)
(***************************************************************************)
DefaultBaseUrl == <<"https:", "/", "/", "netcores.fi.uba.ar">>
DefaultTimeout == 30000

\* baseUrl.replace(/\/$/, ''): drops one trailing separator
RemoveTrailingSlash(url) ==
  IF Len(url) > 0 /\ url[Len(url)] = "/" THEN SubSeq(url, 1, Len(url) - 1) ELSE url

\* new NetCoresAPIClient(baseUrl, options)
Constructor(baseUrl, options) ==
  [baseUrl |-> RemoveTrailingSlash(Default(baseUrl, JStr(DefaultBaseUrl)).v),
   timeout |-> OrElse(Get(options, "timeout"), JInt(DefaultTimeout)).v,
   retryAttempts |-> OrElse(Get(options, "retryAttempts"), JInt(DefaultRetryAttempts)).v,
   retryDelay |-> OrElse(Get(options, "retryDelay"), JInt(DefaultRetryDelay)).v]

\* The errors axios hands to the response interceptor: a response with an
\* error status (with or without a structured body), or no response at all.
AxiosErrors ==
  { [response |-> TRUE, request |-> TRUE, status |-> 400,
     data |-> JObj([message |-> JStr("Invalid ASN"), error |-> JStr("Bad Request")]),
     message |-> "Request failed with status code 400"],
    [response |-> TRUE, request |-> TRUE, status |-> 500,
     data |-> JObj([error |-> JStr("Internal Server Error")]),
     message |-> "Request failed with status code 500"],
    [response |-> TRUE, request |-> TRUE, status |-> 503,
     data |-> Undefined,
     message |-> "Request failed with status code 503"],
    [response |-> FALSE, request |-> TRUE, status |-> 0,
     data |-> Undefined,
     message |-> "connect ECONNREFUSED"],
    [response |-> FALSE, request |-> TRUE, status |-> 0,
     data |-> Undefined,
     message |-> "timeout of 30000ms exceeded"] }

NoError == [response |-> FALSE, request |-> FALSE, status |-> 0,
            data |-> Undefined, message |-> "none"]

IsConnectionError(e) == e.request /\ ~e.response
\* a 4xx response: the caller's own request was malformed
IsClientError(e) == e.response /\ e.status >= 400 /\ e.status < 500

\* (variant: the request is looked at before the response)
InterceptorRequestFirst(error) ==
  IF error.request
  THEN <<"NetCores API Connection Error: ", error.message>>
  ELSE IF error.response
  THEN LET errorMessage == OrElse(Get(error.data, "message"),
                             OrElse(Get(error.data, "error"), JStr(error.message)))
       IN <<"NetCores API Error (", ToString(error.status), "): ">> \o Str(errorMessage)
  ELSE <<"NetCores API Error: ", error.message>>
\* the response interceptor's error branch: the message of the Error it throws
Interceptor(error) ==
  IF error.response
  THEN LET errorMessage == OrElse(Get(error.data, "message"),
                             OrElse(Get(error.data, "error"), JStr(error.message)))
       IN <<"NetCores API Error (", ToString(error.status), "): ">> \o Str(errorMessage)
  ELSE IF error.request
  THEN <<"NetCores API Connection Error: ", error.message>>
  ELSE <<"NetCores API Error: ", error.message>>

\* (variant: the loop has no bound of its own)
LoopContinuesAlways(attempt, c) == TRUE
\* makeRequest: the loop test before an attempt is sent
LoopContinues(attempt, c) == attempt <= c.retryAttempts

\* (variant: the loop gives up one attempt early)
GivesUpEarly(attempt, c) == attempt >= c.retryAttempts - 1
\* makeRequest: after a failed attempt, is the error thrown to the caller?
GivesUp(attempt, c) == attempt = c.retryAttempts

\* makeRequest: the backoff delay after failed attempt number attempt
RECURSIVE Pow2(_)
Pow2(n) == IF n <= 0 THEN 1 ELSE 2 * Pow2(n - 1)
\* variant: the exponent is the attempt number itself
BackoffDelayFromTwo(attempt, c) == c.retryDelay * Pow2(attempt)
BackoffDelay(attempt, c) == c.retryDelay * Pow2(attempt - 1)

\* URLSearchParams.toString() of the appended pairs
QueryString(pairs) ==
  Flatten([i \in 1..Len(pairs) |->
             <<pairs[i][1], "=">> \o pairs[i][2]
             \o (IF i < Len(pairs) THEN <<"&">> ELSE <<>>)])

WithQuery(path, pairs) ==
  path \o (IF Len(QueryString(pairs)) > 0 THEN <<"?">> \o QueryString(pairs) ELSE <<>>)

\* the pair appended for a truthy option, nothing otherwise
QueryPair(name, value) == IF Truthy(value) THEN << <<name, Str(value)>> >> ELSE <<>>

NoData == Undefined
Request(method, url, data) == [method |-> method, url |-> url, data |-> data]

\* client.healthCheck()
ClientHealthCheck == Request("GET", <<"/api/health">>, NoData)
\* client.getDataSummary()
ClientGetDataSummary == Request("GET", <<"/api/summary">>, NoData)
\* client.getASNTrend(asn, options)
ClientGetASNTrend(asn, options) ==
  Request("GET",
          WithQuery(<<"/api/trends/">> \o Str(asn),
                    QueryPair("ip_version", Get(options, "ipVersion"))
                    \o QueryPair("start_date", Get(options, "startDate"))
                    \o QueryPair("end_date", Get(options, "endDate"))),
          NoData)
\* the properties set only when their value is truthy
OptionalField(name, value) == IF Truthy(value) THEN name :> value ELSE <<>>
\* client.getMultipleASNTrends(asns, options)
ClientGetMultipleASNTrends(asns, options) ==
  Request("POST", <<"/api/trends">>,
          JObj(("asns" :> asns)
               @@ ("ip_version" :> OrElse(Get(options, "ipVersion"), JStr("ipv4")))
               @@ OptionalField("start_date", Get(options, "startDate"))
               @@ OptionalField("end_date", Get(options, "endDate"))))
\* (variant: a missing filter is sent as 'ipv4')
ClientGetSnapshotsDefaulting(ipVersion) ==
  Request("GET",
          WithQuery(<<"/api/snapshots">>, QueryPair("ip_version", OrElse(ipVersion, JStr("ipv4")))),
          NoData)
\* client.getSnapshots(ipVersion)
ClientGetSnapshots(ipVersion) ==
  Request("GET", WithQuery(<<"/api/snapshots">>, QueryPair("ip_version", ipVersion)), NoData)
\* client.refreshData(ipVersions)
ClientRefreshData(ipVersions) ==
  Request("POST", <<"/api/refresh">>,
          JObj([ip_versions |-> Default(ipVersions, JArr(<<JStr("ipv4"), JStr("ipv6")>>))]))
\* client.getSchedulerStatus()
ClientGetSchedulerStatus == Request("GET", <<"/api/scheduler/status">>, NoData)
\* client.triggerUpdate()
ClientTriggerUpdate == Request("POST", <<"/api/scheduler/update">>, NoData)

(***************************************************************************)
(* tools.js: the tool catalogue and its schemas                            *)
(***************************************************************************)
\* getToolDefinitions(): the names, in declaration order
ToolNames ==
  <<"netcores_health_check", "netcores_data_summary", "netcores_asn_trend",
    "netcores_multiple_asn_trends", "netcores_snapshots", "netcores_refresh_data",
    "netcores_scheduler_status", "netcores_trigger_update">>

Registered == {ToolNames[i] : i \in 1..Len(ToolNames)}

\* the default values the inputSchema of a tool declares for its properties
SchemaDefaults(name) ==
  CASE name = "netcores_asn_trend" ->
         [ip_version |-> JStr("ipv4"), limit |-> JInt(20)]
    [] name = "netcores_multiple_asn_trends" ->
         [ip_version |-> JStr("ipv4"), limit |-> JInt(10)]
    [] name = "netcores_refresh_data" ->
         [ip_versions |-> JArr(<<JStr("ipv4"), JStr("ipv6")>>)]
    [] OTHER -> <<>>

\* inputSchema.required of the definition of a tool
Required(name) ==
  CASE name = "netcores_asn_trend" -> <<"asn">>
    [] name = "netcores_multiple_asn_trends" -> <<"asns">>
    [] OTHER -> <<>>

\* getToolDefinitions(): a new array of new definitions on every call
GetToolDefinitions ==
  [i \in 1..Len(ToolNames) |-> [name |-> ToolNames[i], required |-> Required(ToolNames[i])]]

IpVersionEnum == {"ipv4", "ipv6"}
\* the strings of the model that match ^\d{4}-\d{2}-\d{2}$
DatePatternMatches == {"2024-01-01", "2024-06-30"}

IsInteger(x) == x.t = "integer"
IsString(x) == x.t = "string"
IsArray(x) == x.t = "array"

\* a property that is absent satisfies its schema; required ones are listed apart
IpVersionSchema(x) == x # Undefined => IsString(x) /\ x.v \in IpVersionEnum
DateSchema(x) == x # Undefined => IsString(x) /\ x.v \in DatePatternMatches
LimitSchema(x) == x # Undefined => IsInteger(x) /\ x.v >= LimitMinimum /\ x.v <= LimitMaximum
AsnSchema(x) == x # Undefined => IsInteger(x)
AsnsSchema(x) ==
  x # Undefined =>
    /\ IsArray(x)
    /\ Len(x.v) >= AsnsMinItems
    /\ Len(x.v) <= AsnsMaxItems
    /\ \A i \in 1..Len(x.v) : IsInteger(x.v[i])
IpVersionsSchema(x) ==
  x # Undefined =>
    /\ IsArray(x)
    /\ \A i \in 1..Len(x.v) : IsString(x.v[i]) /\ x.v[i].v \in IpVersionEnum

\* the inputSchema of the tool called name, evaluated on an arguments value
SatisfiesSchema(name, args) ==
  /\ args.t = "object"
  /\ CASE name = "netcores_asn_trend" ->
            /\ Get(args, "asn") # Undefined
            /\ AsnSchema(Get(args, "asn"))
            /\ IpVersionSchema(Get(args, "ip_version"))
            /\ DateSchema(Get(args, "start_date"))
            /\ DateSchema(Get(args, "end_date"))
            /\ LimitSchema(Get(args, "limit"))
       [] name = "netcores_multiple_asn_trends" ->
            /\ Get(args, "asns") # Undefined
            /\ AsnsSchema(Get(args, "asns"))
            /\ IpVersionSchema(Get(args, "ip_version"))
            /\ DateSchema(Get(args, "start_date"))
            /\ DateSchema(Get(args, "end_date"))
            /\ LimitSchema(Get(args, "limit"))
       [] name = "netcores_snapshots" -> IpVersionSchema(Get(args, "ip_version"))
       [] name = "netcores_refresh_data" -> IpVersionsSchema(Get(args, "ip_versions"))
       [] OTHER -> TRUE

(***************************************************************************)
(* The arguments tried                                                     *)
(***************************************************************************)
Asns == 1..MaxAsn

\* the objects with no property or with the property name set to a value of values
Optional(name, values) == {<<>>} \cup {name :> v : v \in values}

IpVersionValues == {JStr("ipv4"), JStr("ipv6"), JStr("ipv5")}
LimitValues == {JInt(n) : n \in (-1)..MaxLimit} \cup {JInt(LimitMaximum + 1)}

\* the sequences without repetition over Asns
DistinctSeqs ==
  {s \in UNION {[1..n -> Asns] : n \in 0..MaxAsn} :
     \A i, j \in 1..Len(s) : i # j => s[i] # s[j]}

\* [1, 2, .., MaxAsn], the same reversed and rotated, and lists that are too
\* short or too long for the schema
AsnLists ==
  { [i \in 1..MaxAsn |-> i],
    [i \in 1..MaxAsn |-> MaxAsn + 1 - i],
    [i \in 1..MaxAsn |-> (i % MaxAsn) + 1],
    <<2>>,
    <<>>,
    [i \in 1..(AsnsMaxItems + 1) |-> 1] }

AsnsValues == {JArr([i \in 1..Len(s) |-> JInt(s[i])]) : s \in AsnLists}

\* asn with ip_version, start_date and end_date, in the combinations tried
AsnTrendFilters ==
  { <<>>,
    [asn |-> JInt(1)],
    [asn |-> JInt(2), ip_version |-> JStr("ipv4")],
    [asn |-> JInt(3), ip_version |-> JStr("ipv6"), start_date |-> JStr("2024-01-01")],
    [asn |-> JInt(1), ip_version |-> JStr("ipv5"), end_date |-> JStr("2024-06-30")],
    [asn |-> JInt(1), start_date |-> JStr("2024-01-01"), end_date |-> JStr("yesterday")],
    [asn |-> JStr("AS1")] }

MultiTrendFilters ==
  { <<>>,
    [ip_version |-> JStr("ipv6"), start_date |-> JStr("2024-01-01"),
     end_date |-> JStr("2024-06-30")] }

ArgsFor(name) ==
  CASE name = "netcores_asn_trend" ->
         {JObj(f @@ l) : f \in AsnTrendFilters, l \in Optional("limit", LimitValues)}
    [] name = "netcores_multiple_asn_trends" ->
         {JObj(a @@ l @@ f) : a \in Optional("asns", AsnsValues),
                              l \in Optional("limit", {JInt(0), JInt(1)}),
                              f \in MultiTrendFilters}
    [] name = "netcores_snapshots" ->
         {JObj(v) : v \in Optional("ip_version", IpVersionValues)}
    [] name = "netcores_refresh_data" ->
         {JObj(v) : v \in Optional("ip_versions",
                       {JArr(<<JStr("ipv4")>>), JArr(<<JStr("ipv6"), JStr("ipv4")>>),
                        JArr(<<JStr("ipv5")>>)})}
    [] OTHER -> {EmptyObj}

\* names that are not in the catalogue
UnknownNames == {"nonexistent_tool", "NETCORES_HEALTH_CHECK", "netcores_asn_trends"}
Names == Registered \cup UnknownNames

(***************************************************************************)
(* The response bodies tried                                               *)
(***************************************************************************)
PointFull ==
  JObj([date |-> JStr("2024-01-01"), shell_index |-> JInt(3),
        max_shell_index |-> JInt(10), normalized_shell_index |-> JNum(8125)])
\* a point with every field missing
PointSparse == EmptyObj
\* a point whose normalized index is not a number
PointBad == JObj([date |-> JStr("2024-03-01"), normalized_shell_index |-> JStr("0.5")])
Points == {PointFull, PointSparse, PointBad}
WellFormed(points) ==
  \A i \in 1..Len(points) : Get(points[i], "normalized_shell_index").t # "string"

Series == UNION {[1..n -> Points] : n \in 0..MaxPoints}

\* a series of n points, every other one with its fields missing
LongSeries(n) == [i \in 1..n |-> IF i % 2 = 1 THEN PointFull ELSE PointSparse]

\* among the bodies, one whose series is one point longer than the declared
\* default of limit
AsnTrendBodies ==
  {JObj([ip_version |-> JStr("ipv4"), trend_data |-> JArr(s)]) : s \in Series}
  \cup {JObj([ip_version |-> JStr("ipv4"),
               trend_data |->
                 JArr(LongSeries(SchemaDefaults("netcores_asn_trend").limit.v + 1))])}
  \cup {EmptyObj,
        JObj([date_range |-> JObj([start |-> JStr("2024-01-01")]),
              trend_data |-> JArr(<<PointFull>>)])}

\* the series the multi-trend bodies give to ASN a
SeriesOf(a, variant) ==
  [i \in 1..((a + variant) % (MaxPoints + 1)) |->
     IF i % 2 = 1 THEN PointFull ELSE PointSparse]

Range(s) == {s[i] : i \in 1..Len(s)}

MultiTrendBodies ==
  {JObj([ip_version |-> JStr("ipv4"),
         trend_data |-> JOrd(keys, [a \in Range(keys) |-> JArr(SeriesOf(a, variant))], TRUE)])
     : keys \in DistinctSeqs, variant \in 0..1}
  \cup {JObj([ip_version |-> JStr("ipv4"),
               trend_data |->
                 JOrd(<<2>>,
                      [a \in {2} |->
                         JArr(LongSeries(
                                SchemaDefaults("netcores_multiple_asn_trends").limit.v + 1))],
                      TRUE)])}
  \cup {EmptyObj,
        JObj([trend_data |-> JOrd(<<1>>, [a \in {1} |-> JArr(<<PointBad>>)], TRUE)]),
        JObj([trend_data |-> JOrd(<<2>>, [a \in {2} |-> Null], TRUE)])}

(***************************************************************************)
(* JavaScript library functions used by the handlers                       *)
(***************************************************************************)
RECURSIVE SortAsc(_)
\* the elements of a finite set of integers in ascending order
SortAsc(S) ==
  IF S = {} THEN <<>>
  ELSE LET m == CHOOSE x \in S : \A y \in S : x <= y
       IN <<m>> \o SortAsc(S \ {m})

\* Object.entries(o): integer keys come first in ascending numeric order,
\* whatever the order in which they were inserted; other keys keep their
\* insertion order
EntryKeys(o) ==
  IF "keys" \in DOMAIN o
  THEN (IF o.indexKeys THEN SortAsc(Range(o.keys)) ELSE o.keys)
  ELSE <<>>

Pad3(n) == IF n < 10 THEN <<"00", ToString(n)>>
           ELSE IF n < 100 THEN <<"0", ToString(n)>>
           ELSE <<ToString(n)>>

\* Number.prototype.toFixed(3) of a non-negative number
ToFixed3(x) ==
  IF x.t = "integer" THEN <<ToString(x.v), ".">> \o Pad3(0)
  ELSE LET n == (x.v + 5) \div 10
       IN <<ToString(n \div 1000), ".">> \o Pad3(n % 1000)
HasToFixed(x) == x.t \in {"integer", "number"}

\* Number.prototype.toLocaleString() of a non-negative integer below a million
ToLocaleString(x) ==
  IF x.t = "integer" /\ x.v >= 1000
  THEN <<ToString(x.v \div 1000), ",">> \o Pad3(x.v % 1000)
  ELSE Str(x)

\* what a synchronous piece of code does: it returns a value or throws an Error
\* with a message
Ok(value) == [threw |-> FALSE, value |-> value]
Throw(message) == [threw |-> TRUE, value |-> message]

ReadOfNullish(x, property) ==
  <<"Cannot read properties of ">> \o Str(x) \o <<" (reading '", property, "')">>
DestructureOfNullish(x, property) ==
  <<"Cannot destructure property '", property, "' of 'params' as it is ">> \o Str(x) \o <<".">>
EntriesOfNullish == <<"Cannot convert undefined or null to object">>

\* the results of the pieces rs, run in order: the first throw wins
RECURSIVE Sequentially(_)
Sequentially(rs) ==
  IF Len(rs) = 0 THEN Ok(<<>>)
  ELSE IF Head(rs).threw THEN Head(rs)
  ELSE LET rest == Sequentially(Tail(rs))
       IN IF rest.threw THEN rest ELSE Ok(Head(rs).value \o rest.value)

(***************************************************************************)
(* tools.js: the handlers.  Each handler is split at its await: the        *)
(* request it builds (or the exception it throws before), and the text it  *)
(* renders from the resolved result.                                       *)
(***************************************************************************)
\* the body of the loops over the points to display
PointLine(point, before, after) ==
  IF Nullish(point) THEN Throw(ReadOfNullish(point, "date"))
  ELSE LET date == OrElse(Get(point, "date"), JStr("N/A"))
           shellIdx == OrElse(Get(point, "shell_index"), JInt(0))
           maxShell == OrElse(Get(point, "max_shell_index"), JInt(0))
           normalized == OrElse(Get(point, "normalized_shell_index"), JInt(0))
       IN IF ~HasToFixed(normalized)
          THEN Throw(<<"normalized.toFixed is not a function">>)
          ELSE Ok(<<before>> \o Str(date) \o <<after, "Shell ">> \o Str(shellIdx) \o <<"/">>
                  \o Str(maxShell) \o <<" (normalized: ">> \o ToFixed3(normalized) \o <<")\n">>)

PointLines(points, indent) ==
  Sequentially([i \in 1..Len(points) |-> PointLine(points[i], indent, ": ")])

\* (variant: the line is printed only for a range that has both its ends)
DateRangeLineOfBothEnds(result) ==
  IF /\ Truthy(Get(result, "date_range"))
     /\ Truthy(Get(Get(result, "date_range"), "start"))
     /\ Truthy(Get(Get(result, "date_range"), "end"))
  THEN <<"**Date Range:** ">> \o Str(Get(Get(result, "date_range"), "start"))
       \o <<" to ">> \o Str(Get(Get(result, "date_range"), "end")) \o <<"\n">>
  ELSE <<>>
\* the line of the date range, in the text of both trend handlers
DateRangeLine(result) ==
  IF Truthy(Get(result, "date_range"))
  THEN <<"**Date Range:** ">> \o Str(OrElse(Get(Get(result, "date_range"), "start"), JStr("N/A")))
       \o <<" to ">> \o Str(OrElse(Get(Get(result, "date_range"), "end"), JStr("N/A"))) \o <<"\n">>
  ELSE <<>>

\* the options both trend handlers build from their arguments
TrendOptions(params, ip_version) ==
  JObj(("ipVersion" :> ip_version)
       @@ OptionalField("startDate", Get(params, "start_date"))
       @@ OptionalField("endDate", Get(params, "end_date")))

\* the points displayed for a limit that is not 0 (variant: the first ones)
DisplayedHead(points, limit) == SubSeq(points, 1, IF limit < Len(points) THEN limit ELSE Len(points))
Displayed(points, limit) == Slice(points, Neg(limit))

\* asnTrend, up to the await
AsnTrendRequest(params) ==
  IF Nullish(params) THEN Throw(DestructureOfNullish(params, "asn"))
  ELSE Ok(ClientGetASNTrend(Get(params, "asn"),
            TrendOptions(params, Default(Get(params, "ip_version"), JStr("ipv4")))))

\* asnTrend, after the await
AsnTrendRender(params, result) ==
  IF Nullish(result) THEN Throw(ReadOfNullish(result, "ip_version"))
  ELSE
  LET asn == Get(params, "asn")
      limit == Default(Get(params, "limit"), JInt(AsnTrendDefaultLimit)).v
      trendData == OrElse(Get(result, "trend_data"), JArr(<<>>)).v
      head == <<"U+1F4C8", " ASN ">> \o Str(asn) \o <<" Trend Analysis\n\n">>
              \o <<"**IP Version:** ">> \o Str(OrElse(Get(result, "ip_version"), JStr("unknown")))
              \o <<"\n">> \o DateRangeLine(result)
      displayData == IF limit = 0 THEN trendData ELSE Displayed(trendData, limit)
      showing ==
        IF limit = 0
        THEN <<"**Showing:** All ", ToString(Len(trendData)), " data points\n\n">>
        ELSE IF Len(trendData) > limit
        THEN <<"**Showing:** Most recent ", ToString(Len(displayData)), " of ",
               ToString(Len(trendData)), " data points\n",
               "*Use limit=0 to see all data*\n\n">>
        ELSE <<"**Showing:** All ", ToString(Len(displayData)), " data points\n\n">>
  IN IF Len(trendData) > 0
     THEN Sequentially(<<Ok(head \o <<"**Total Data Points:** ", ToString(Len(trendData)), "\n">>
                            \o showing \o <<"**Trend Data:**\n">>),
                         PointLines(displayData, "- ")>>)
     ELSE Ok(head \o <<"**No trend data available for this ASN and date range.**\n">>)

\* multipleAsnTrends, up to the await
MultiTrendRequest(params) ==
  IF Nullish(params) THEN Throw(DestructureOfNullish(params, "asns"))
  ELSE Ok(ClientGetMultipleASNTrends(Get(params, "asns"),
            TrendOptions(params, Default(Get(params, "ip_version"), JStr("ipv4")))))

\* the section of one entry of trend_data
AsnSection(asn, dataPoints, limit) ==
  LET points == dataPoints.v
      displayData == IF limit = 0 THEN points ELSE Displayed(points, limit)
  IN IF Truthy(dataPoints) /\ Len(points) > 0
     THEN Sequentially(<<
            Ok(<<"**ASN ", ToString(asn), ":**\n",
                 "- Total data points: ", ToString(Len(points)), "\n">>),
            IF Len(displayData) > 1
            THEN Sequentially(<<Ok(<<"- Showing recent ", ToString(Len(displayData)), " points:\n">>),
                                PointLines(displayData, "  - ")>>)
            ELSE IF Len(displayData) = 1
            THEN PointLine(displayData[1], "- Latest (", "): ")
            ELSE Ok(<<>>),
            Ok(<<"\n">>)>>)
     ELSE Ok(<<"**ASN ", ToString(asn), ":**\n", "- No data available\n\n">>)

\* the ASNs of the sections, in the order in which the loop visits them
SectionOrder(result) == EntryKeys(OrElse(Get(result, "trend_data"), EmptyObj))

\* multipleAsnTrends, after the await
MultiTrendRender(params, result) ==
  LET asns == Get(params, "asns")
      limit == Default(Get(params, "limit"), JInt(MultiTrendDefaultLimit)).v
  IN IF Nullish(asns) THEN Throw(ReadOfNullish(asns, "join"))
     ELSE IF ~IsArray(asns) THEN Throw(<<"asns.join is not a function">>)
     ELSE IF Nullish(result) THEN Throw(ReadOfNullish(result, "ip_version"))
     ELSE
     LET trendData == OrElse(Get(result, "trend_data"), EmptyObj)
         order == SectionOrder(result)
     IN Sequentially(
          <<Ok(<<"U+1F4CA", " Multiple ASN Trend Analysis\n\n", "**ASNs:** ">>
               \o Join([i \in 1..Len(asns.v) |->
                          IF Nullish(asns.v[i]) THEN "" ELSE Str(asns.v[i])[1]], ", ")
               \o <<"\n", "**IP Version:** ">>
               \o Str(OrElse(Get(result, "ip_version"), JStr("unknown"))) \o <<"\n">>
               \o DateRangeLine(result)
               \o (IF limit = 0
                   THEN <<"**Showing:** All available data points per ASN\n\n">>
                   ELSE <<"**Showing:** Up to ", ToString(limit),
                          " most recent data points per ASN\n",
                          "*Use limit=0 to see all data*\n\n">>))>>
          \o [i \in 1..Len(order) |-> AsnSection(order[i], trendData.v[order[i]], limit)])

\* (variant: the text opens with the mark of the status)
HealthCheckRenderStatusFirst(result) ==
  IF Nullish(result) THEN Throw(ReadOfNullish(result, "status"))
  ELSE
  LET statusEmoji == IF Get(result, "status") = JStr("healthy") THEN CheckMark ELSE CrossMark
      dataEmoji == IF Get(result, "data_status") = JStr("available") THEN "U+1F4CA" ELSE "U+26A0"
      database == Get(result, "database")
  IN Ok(<<statusEmoji, " NetCores Health Check ", "U+1F3E5", "\n\n**System Status:** ">>
        \o Str(OrElse(Get(result, "status"), JStr("unknown")))
        \o <<"\n**Version:** ">> \o Str(OrElse(Get(result, "version"), JStr("unknown")))
        \o <<"\n**Data Status:** ">> \o Str(OrElse(Get(result, "data_status"), JStr("unknown")))
        \o <<" ", dataEmoji, "\n\n**Database Health:**\n- Status: ">>
        \o Str(OrElse(Get(database, "status"), JStr("unknown")))
        \o <<"\n- Connection: ">> \o Str(OrElse(Get(database, "connection"), JStr("unknown")))
        \o <<"\n- Tables: ">> \o Str(OrElse(Get(database, "tables"), JInt(0))))
\* healthCheck, after the await
HealthCheckRender(result) ==
  IF Nullish(result) THEN Throw(ReadOfNullish(result, "status"))
  ELSE
  LET statusEmoji == IF Get(result, "status") = JStr("healthy") THEN CheckMark ELSE CrossMark
      dataEmoji == IF Get(result, "data_status") = JStr("available") THEN "U+1F4CA" ELSE "U+26A0"
      database == Get(result, "database")
  IN Ok(<<"U+1F3E5", " NetCores Health Check ", statusEmoji, "\n\n**System Status:** ">>
        \o Str(OrElse(Get(result, "status"), JStr("unknown")))
        \o <<"\n**Version:** ">> \o Str(OrElse(Get(result, "version"), JStr("unknown")))
        \o <<"\n**Data Status:** ">> \o Str(OrElse(Get(result, "data_status"), JStr("unknown")))
        \o <<" ", dataEmoji, "\n\n**Database Health:**\n- Status: ">>
        \o Str(OrElse(Get(database, "status"), JStr("unknown")))
        \o <<"\n- Connection: ">> \o Str(OrElse(Get(database, "connection"), JStr("unknown")))
        \o <<"\n- Tables: ">> \o Str(OrElse(Get(database, "tables"), JInt(0))))

HealthBodies ==
  { JObj([status |-> JStr("healthy"), version |-> JStr("1.0.0"),
          data_status |-> JStr("available"),
          database |-> JObj([status |-> JStr("ok"), connection |-> JStr("up"),
                             tables |-> JInt(4)])]),
    JObj([status |-> JStr("degraded"), data_status |-> JStr("missing")]),
    EmptyObj }

\* String.prototype.toUpperCase() of the keys of the bodies tried
ToUpperCase(key) ==
  CASE key = "ipv4" -> "IPV4"
    [] key = "ipv6" -> "IPV6"
    [] OTHER -> key

\* the heading of the section of one IP version
VersionHeading(ipVersion) ==
  <<"**", ToUpperCase(ipVersion), " ", IF ipVersion = "ipv4" THEN "U+1F310" ELSE "U+1F30D", ":**\n">>

\* dataSummary, after the await
DataSummaryRender(result) ==
  IF Nullish(result) THEN Throw(EntriesOfNullish)
  ELSE
  LET keys == EntryKeys(result)
      Section(ipVersion, data) ==
        IF Nullish(data) THEN Throw(ReadOfNullish(data, "snapshot_count"))
        ELSE Ok(VersionHeading(ipVersion)
                \o <<"- Snapshots: ">> \o Str(OrElse(Get(data, "snapshot_count"), JInt(0))) \o <<"\n">>
                \o (IF Truthy(Get(data, "date_range"))
                    THEN <<"- Date Range: ">>
                         \o Str(OrElse(Get(Get(data, "date_range"), "start"), JStr("N/A")))
                         \o <<" to ">>
                         \o Str(OrElse(Get(Get(data, "date_range"), "end"), JStr("N/A")))
                         \o <<"\n">>
                    ELSE <<>>)
                \o <<"- Total ASNs: ">> \o ToLocaleString(OrElse(Get(data, "total_asns"), JInt(0)))
                \o <<"\n", "- Max Shell Index: ">>
                \o Str(OrElse(Get(data, "max_shell_index"), JInt(0))) \o <<"\n\n">>)
  IN Sequentially(<<Ok(<<"U+1F4CA", " NetCores Data Summary\n\n">>)>>
                  \o [i \in 1..Len(keys) |-> Section(keys[i], result.v[keys[i]])])

DataSummaryBodies ==
  { JOrd(<<"ipv4", "ipv6">>,
         [ipv4 |-> JObj([snapshot_count |-> JInt(320), total_asns |-> JInt(75000),
                         max_shell_index |-> JInt(90),
                         date_range |-> JObj([start |-> JStr("1998-01-01"),
                                              end |-> JStr("2024-06-30")])]),
          ipv6 |-> JObj([date_range |-> EmptyObj])], FALSE),
    JOrd(<<"ipv6">>, [ipv6 |-> EmptyObj], FALSE),
    JOrd(<<"ipv4">>, [ipv4 |-> Null], FALSE),
    EmptyObj }

\* snapshots, up to the await
SnapshotsRequest(params) ==
  IF Nullish(params) THEN Throw(DestructureOfNullish(params, "ip_version"))
  ELSE Ok(ClientGetSnapshots(Get(params, "ip_version")))

\* snapshots, after the await
SnapshotsRender(result) ==
  IF Nullish(result) THEN Throw(EntriesOfNullish)
  ELSE
  LET keys == EntryKeys(result)
      Section(ipVersion, snapshots) ==
        IF Truthy(snapshots) /\ Len(snapshots.v) > 0
        THEN LET latest == snapshots.v[Len(snapshots.v)]
                 oldest == snapshots.v[1]
             IN IF Nullish(latest) THEN Throw(ReadOfNullish(latest, "date"))
                ELSE IF Len(snapshots.v) > 1 /\ Nullish(oldest)
                THEN Throw(ReadOfNullish(oldest, "date"))
                ELSE Ok(VersionHeading(ipVersion)
                        \o <<"- Total snapshots: ", ToString(Len(snapshots.v)), "\n">>
                        \o <<"- Latest: ">> \o Str(OrElse(Get(latest, "date"), JStr("N/A")))
                        \o <<"\n", "- Max shell index: ">>
                        \o Str(OrElse(Get(latest, "max_shell_index"), JInt(0)))
                        \o <<"\n", "- Unique ASNs: ">>
                        \o ToLocaleString(OrElse(Get(latest, "unique_asns"), JInt(0))) \o <<"\n">>
                        \o (IF Len(snapshots.v) > 1
                            THEN <<"- Oldest: ">> \o Str(OrElse(Get(oldest, "date"), JStr("N/A")))
                                 \o <<"\n">>
                            ELSE <<>>)
                        \o <<"\n">>)
        ELSE Ok(VersionHeading(ipVersion) \o <<"- No snapshots available\n", "\n">>)
  IN Sequentially(<<Ok(<<"U+1F4F7", " Network Snapshots\n\n">>)>>
                  \o [i \in 1..Len(keys) |-> Section(keys[i], result.v[keys[i]])])

SnapshotsBodies ==
  { JOrd(<<"ipv4", "ipv6">>,
         [ipv4 |-> JArr(<<JObj([date |-> JStr("1998-01-01")]),
                          JObj([date |-> JStr("2024-06-01"), max_shell_index |-> JInt(90),
                                unique_asns |-> JInt(75000)])>>),
          ipv6 |-> JArr(<<>>)], FALSE),
    JOrd(<<"ipv6">>, [ipv6 |-> JArr(<<EmptyObj>>)], FALSE),
    JOrd(<<"ipv4">>, [ipv4 |-> JArr(<<Null>>)], FALSE),
    EmptyObj }

\* refreshData, up to the await
RefreshDataRequest(params) ==
  IF Nullish(params) THEN Throw(DestructureOfNullish(params, "ip_versions"))
  ELSE Ok(ClientRefreshData(
            Default(Get(params, "ip_versions"), JArr(<<JStr("ipv4"), JStr("ipv6")>>))))

\* refreshData, after the await
RefreshDataRender(result) ==
  IF Nullish(result) THEN Throw(EntriesOfNullish)
  ELSE
  LET keys == EntryKeys(result)
      Section(ipVersion, refreshResult) ==
        IF Nullish(refreshResult) THEN Throw(ReadOfNullish(refreshResult, "success"))
        ELSE Ok(VersionHeading(ipVersion)
                \o (IF Truthy(Get(refreshResult, "success"))
                    THEN <<CheckMark, " Refresh completed successfully\n">>
                         \o (LET processed == OrElse(Get(refreshResult, "processed_dates"),
                                                     JArr(<<>>)).v
                             IN IF Len(processed) > 0
                                THEN <<"- Processed dates: ">>
                                     \o Join([i \in 1..Len(processed) |-> Str(processed[i])[1]], ", ")
                                     \o <<"\n">>
                                ELSE <<>>)
                    ELSE <<CrossMark, " Refresh failed\n", "- Error: ">>
                         \o Str(OrElse(Get(refreshResult, "error"), JStr("Unknown error")))
                         \o <<"\n">>)
                \o <<"\n">>)
  IN Sequentially(<<Ok(<<"U+1F504", " Data Refresh Results\n\n">>)>>
                  \o [i \in 1..Len(keys) |-> Section(keys[i], result.v[keys[i]])])

RefreshDataBodies ==
  { JOrd(<<"ipv4", "ipv6">>,
         [ipv4 |-> JObj([success |-> JBool(TRUE),
                         processed_dates |-> JArr(<<JStr("2024-05-01"), JStr("2024-06-01")>>)]),
          ipv6 |-> JObj([success |-> JBool(FALSE), error |-> JStr("download failed")])], FALSE),
    JOrd(<<"ipv6">>, [ipv6 |-> EmptyObj], FALSE),
    JOrd(<<"ipv4">>, [ipv4 |-> Null], FALSE),
    EmptyObj }

\* schedulerStatus, after the await
SchedulerStatusRender(result) ==
  IF Nullish(result) THEN Throw(ReadOfNullish(result, "running"))
  ELSE
  LET runningEmoji == IF Truthy(Get(result, "running")) THEN "U+1F7E2" ELSE "U+1F534"
      enabledEmoji == IF Truthy(Get(result, "enabled")) THEN CheckMark ELSE CrossMark
  IN Ok(<<"U+23F0", " Scheduler Status ", runningEmoji, "\n\n", "**Running:** ">>
        \o Str(OrElse(Get(result, "running"), JBool(FALSE))) \o <<" ", runningEmoji, "\n">>
        \o <<"**Enabled:** ">>
        \o Str(OrElse(Get(result, "enabled"), JBool(FALSE))) \o <<" ", enabledEmoji, "\n">>
        \o <<"**Schedule:** ">> \o Str(OrElse(Get(result, "schedule"), JStr("N/A"))) \o <<"\n">>
        \o (IF Truthy(Get(result, "next_run"))
            THEN <<"**Next Run:** ">> \o Str(Get(result, "next_run")) \o <<"\n">>
            ELSE <<"**Next Run:** Not scheduled\n">>))

SchedulerStatusBodies ==
  { JObj([running |-> JBool(TRUE), enabled |-> JBool(TRUE), schedule |-> JStr("0 3 1 * *"),
          next_run |-> JStr("2024-07-01T03:00:00")]),
    JObj([running |-> JBool(FALSE)]),
    EmptyObj }

\* triggerUpdate, after the await
TriggerUpdateRender(result) ==
  IF Nullish(result) THEN Throw(ReadOfNullish(result, "triggered"))
  ELSE
  LET updateResults == OrElse(Get(result, "results"), EmptyObj)
      keys == EntryKeys(updateResults)
      Entry(ipVersion, updateResult) ==
        IF Nullish(updateResult) THEN Throw(ReadOfNullish(updateResult, "success"))
        ELSE Ok(<<"- ", ToUpperCase(ipVersion), " ",
                  IF ipVersion = "ipv4" THEN "U+1F310" ELSE "U+1F30D", ": ">>
                \o (IF Truthy(Get(updateResult, "success"))
                    THEN <<CheckMark, " Success\n">>
                    ELSE <<CrossMark, " Failed\n">>))
  IN Sequentially(
       <<Ok(<<"U+1F680", " Manual Update Triggered\n\n", "**Triggered:** ">>
            \o Str(OrElse(Get(result, "triggered"), JBool(FALSE))) \o <<"\n">>
            \o <<"**Timestamp:** ">> \o Str(OrElse(Get(result, "timestamp"), JStr("N/A")))
            \o <<"\n\n">>
            \o (IF Len(keys) > 0 THEN <<"**Update Results:**\n">> ELSE <<>>))>>
       \o [i \in 1..Len(keys) |-> Entry(keys[i], updateResults.v[keys[i]])])

TriggerUpdateBodies ==
  { JObj([triggered |-> JBool(TRUE), timestamp |-> JStr("2024-06-30T12:00:00"),
          results |-> JOrd(<<"ipv4", "ipv6">>,
                           [ipv4 |-> JObj([success |-> JBool(TRUE)]),
                            ipv6 |-> JObj([success |-> JBool(FALSE)])], FALSE)]),
    JObj([results |-> JOrd(<<"ipv4">>, [ipv4 |-> Null], FALSE)]),
    EmptyObj }

(***************************************************************************)
(* tools.js: executeTool and the try/catch of the handlers                 *)
(***************************************************************************)
NoHandler == "none"

\* (variant: the name is compared without regard to letter case)
RouteIgnoringCase(toolName) ==
  CASE toolName \in {"netcores_health_check", "NETCORES_HEALTH_CHECK"} -> "healthCheck"
    [] toolName = "netcores_data_summary" -> "dataSummary"
    [] toolName = "netcores_asn_trend" -> "asnTrend"
    [] toolName = "netcores_multiple_asn_trends" -> "multipleAsnTrends"
    [] toolName = "netcores_snapshots" -> "snapshots"
    [] toolName = "netcores_refresh_data" -> "refreshData"
    [] toolName = "netcores_scheduler_status" -> "schedulerStatus"
    [] toolName = "netcores_trigger_update" -> "triggerUpdate"
    [] OTHER -> NoHandler

\* (variant: the default case falls through to the last handler)
RouteWithoutDefault(toolName) ==
  CASE toolName = "netcores_health_check" -> "healthCheck"
    [] toolName = "netcores_data_summary" -> "dataSummary"
    [] toolName = "netcores_asn_trend" -> "asnTrend"
    [] toolName = "netcores_multiple_asn_trends" -> "multipleAsnTrends"
    [] toolName = "netcores_snapshots" -> "snapshots"
    [] toolName = "netcores_refresh_data" -> "refreshData"
    [] toolName = "netcores_scheduler_status" -> "schedulerStatus"
    [] OTHER -> "triggerUpdate"

\* the handler methods of NetCoresTools, in the order of their declaration
HandlerMethods ==
  <<"healthCheck", "dataSummary", "asnTrend", "multipleAsnTrends",
    "snapshots", "refreshData", "schedulerStatus", "triggerUpdate">>

\* (variant: the switch has no case for the tool declared last)
RouteWithoutLastCase(toolName) ==
  CASE toolName = "netcores_health_check" -> "healthCheck"
    [] toolName = "netcores_data_summary" -> "dataSummary"
    [] toolName = "netcores_asn_trend" -> "asnTrend"
    [] toolName = "netcores_multiple_asn_trends" -> "multipleAsnTrends"
    [] toolName = "netcores_snapshots" -> "snapshots"
    [] toolName = "netcores_refresh_data" -> "refreshData"
    [] toolName = "netcores_scheduler_status" -> "schedulerStatus"
    [] OTHER -> NoHandler
\* the switch of executeTool: the method a tool name is routed to
Route(toolName) ==
  CASE toolName = "netcores_health_check" -> "healthCheck"
    [] toolName = "netcores_data_summary" -> "dataSummary"
    [] toolName = "netcores_asn_trend" -> "asnTrend"
    [] toolName = "netcores_multiple_asn_trends" -> "multipleAsnTrends"
    [] toolName = "netcores_snapshots" -> "snapshots"
    [] toolName = "netcores_refresh_data" -> "refreshData"
    [] toolName = "netcores_scheduler_status" -> "schedulerStatus"
    [] toolName = "netcores_trigger_update" -> "triggerUpdate"
    [] OTHER -> NoHandler

\* the try block of a handler up to its await: the request passed to makeRequest
HandlerRequest(handler, params) ==
  CASE handler = "healthCheck" -> Ok(ClientHealthCheck)
    [] handler = "dataSummary" -> Ok(ClientGetDataSummary)
    [] handler = "asnTrend" -> AsnTrendRequest(params)
    [] handler = "multipleAsnTrends" -> MultiTrendRequest(params)
    [] handler = "snapshots" -> SnapshotsRequest(params)
    [] handler = "refreshData" -> RefreshDataRequest(params)
    [] handler = "schedulerStatus" -> Ok(ClientGetSchedulerStatus)
    [] handler = "triggerUpdate" -> Ok(ClientTriggerUpdate)

\* the try block of a handler after its await
HandlerRender(handler, params, result) ==
  CASE handler = "healthCheck" -> HealthCheckRender(result)
    [] handler = "dataSummary" -> DataSummaryRender(result)
    [] handler = "asnTrend" -> AsnTrendRender(params, result)
    [] handler = "multipleAsnTrends" -> MultiTrendRender(params, result)
    [] handler = "snapshots" -> SnapshotsRender(result)
    [] handler = "refreshData" -> RefreshDataRender(result)
    [] handler = "schedulerStatus" -> SchedulerStatusRender(result)
    [] handler = "triggerUpdate" -> TriggerUpdateRender(result)

\* the response bodies tried for the endpoint of a handler
BodiesFor(handler) ==
  CASE handler = "healthCheck" -> HealthBodies
    [] handler = "dataSummary" -> DataSummaryBodies
    [] handler = "asnTrend" -> AsnTrendBodies
    [] handler = "multipleAsnTrends" -> MultiTrendBodies
    [] handler = "snapshots" -> SnapshotsBodies
    [] handler = "refreshData" -> RefreshDataBodies
    [] handler = "schedulerStatus" -> SchedulerStatusBodies
    [] handler = "triggerUpdate" -> TriggerUpdateBodies
    [] OTHER -> {}

\* the text after the marker in the catch block of a handler
FailureLabel(handler) ==
  CASE handler = "healthCheck" -> " Health check failed: "
    [] handler = "dataSummary" -> " Data summary failed: "
    [] handler = "asnTrend" -> " ASN trend analysis failed: "
    [] handler = "multipleAsnTrends" -> " Multiple ASN trend analysis failed: "
    [] handler = "snapshots" -> " Snapshots query failed: "
    [] handler = "refreshData" -> " Data refresh failed: "
    [] handler = "schedulerStatus" -> " Scheduler status query failed: "
    [] handler = "triggerUpdate" -> " Manual update trigger failed: "

\* (variant: the catch block drops the message of the error)
CaughtWithoutMessage(handler, message) == <<CrossMark, FailureLabel(handler)>>
\* the catch block of a handler
Caught(handler, message) == <<CrossMark, FailureLabel(handler)>> \o message

\* the settled states of a promise
Pending == [state |-> "pending"]
Resolved(value) == [state |-> "resolved", value |-> value]
Rejected(message) == [state |-> "rejected", reason |-> message]

\* (variant: the try block ends at the await, rendering is not covered)
HandlerSettlesUncaught(handler, params, awaited) ==
  IF awaited.state = "rejected"
  THEN Resolved(Caught(handler, awaited.reason))
  ELSE LET rendered == HandlerRender(handler, params, awaited.value)
       IN IF rendered.threw
          THEN Rejected(rendered.value)
          ELSE Resolved(rendered.value)

\* what the promise of a handler settles to once makeRequest has settled
HandlerSettles(handler, params, awaited) ==
  IF awaited.state = "rejected"
  THEN Resolved(Caught(handler, awaited.reason))
  ELSE LET rendered == HandlerRender(handler, params, awaited.value)
       IN IF rendered.threw
          THEN Resolved(Caught(handler, rendered.value))
          ELSE Resolved(rendered.value)

(***************************************************************************)
(* server.js: the tools/call request handler                               *)
(***************************************************************************)
NoReply == [state |-> "none"]
TextContent(text) == [state |-> "result", content |-> <<[type |-> "text", text |-> text]>>]
McpError(code, message) == [state |-> "error", code |-> code, message |-> message]

\* toolDefinitions.some(tool => tool.name === name)
IsKnownTool(name) == \E i \in 1..Len(ToolNames) : ToolNames[i] = name

\* (variant: a failure text is raised as a protocol error)
ServerReplyRaising(name, outcome) ==
  IF outcome.state = "pending" THEN NoReply
  ELSE IF outcome.state = "resolved"
  THEN (IF outcome.value[1] = CrossMark
        THEN McpError("InternalError", outcome.value)
        ELSE TextContent(outcome.value))
  ELSE IF ~IsKnownTool(name)
  THEN McpError("MethodNotFound", <<"Unknown tool: ", name>>)
  ELSE TextContent(<<CrossMark, " Error executing ", name, ": ">> \o outcome.reason)

\* what the request handler does with the settled promise of executeTool
ServerReply(name, outcome) ==
  IF outcome.state = "pending" THEN NoReply
  ELSE IF outcome.state = "resolved" THEN TextContent(outcome.value)
  ELSE IF ~IsKnownTool(name)
  THEN McpError("MethodNotFound", <<"Unknown tool: ", name>>)
  ELSE TextContent(<<CrossMark, " Error executing ", name, ": ">> \o outcome.reason)

(***************************************************************************)
(* The state                                                               *)
(***************************************************************************)
VARIABLES
  client,          \* the fields of the NetCoresAPIClient
  pc,              \* "idle", "request" (an attempt is in flight), "backoff", "done"
  caller,          \* who called executeTool: "test" (directly) or "server"
  toolName,        \* the arguments of executeTool
  params,
  handler,         \* the handler method that was entered, or NoHandler
  attempt,         \* makeRequest: the loop counter
  sent,            \* the HTTP requests issued for the invocation, in order
  waits,           \* the backoff delays waited in the invocation, in order
  error,           \* makeRequest: the failure the current catch block handles
  requestOutcome,  \* the promise of makeRequest
  toolOutcome,     \* the promise of executeTool
  serverOutcome,   \* the reply of the tools/call request handler
  calls,           \* the invocations a caller started together: each with its
                   \* own loop counter, waits and promises
  probe,           \* a testConnection call: its makeRequest and its promise
  catalog,         \* the list of definitions a caller holds, and what the
                   \* caller has done to it
  construction     \* the arguments the client was constructed with by a
                   \* caller that builds its own client

vars == <<client, pc, caller, toolName, params, handler, attempt, sent, waits,
          error, requestOutcome, toolOutcome, serverOutcome, calls, probe, catalog,
          construction>>

\* the state of one invocation at a time, apart from the client it uses
invocation == <<pc, caller, toolName, params, handler, attempt, sent, waits,
                error, requestOutcome, toolOutcome, serverOutcome>>

\* the state of the other scenarios: the invocations started together, the
\* connection test, the listing of the tools, the construction of a client
together == <<calls, probe, catalog, construction>>

\* a connection test that has not started
IdleProbe == [pc |-> "idle", attempt |-> 0, sent |-> <<>>, waits |-> <<>>,
              error |-> NoError, requestOutcome |-> Pending, connection |-> Pending]

\* no list of definitions has been asked for
NoCatalog == [held |-> <<>>, listed |-> FALSE, asReturned |-> FALSE, changes |-> 0]

\* no caller has constructed a client of its own
NotConstructed == [given |-> FALSE, baseUrl |-> Undefined, options |-> Undefined,
                   from |-> <<>>]

\* an invocation that has not started
IdleCall == [pc |-> "idle", attempt |-> 0, requests |-> 0, responses |-> <<>>,
             waits |-> <<>>, requestOutcome |-> Pending, toolOutcome |-> Pending]

\* the invocations started together
CallIds == 1..MaxCalls

\* the options passed to the constructor
OptionArgs ==
  {JObj(a @@ d) :
     a \in Optional("retryAttempts", {JInt(n) : n \in (-1)..MaxRetryOption}),
     d \in Optional("retryDelay", {JInt(0), JInt(500)})}

Init ==
  /\ client \in {Constructor(Undefined, o) : o \in OptionArgs}
  /\ pc = "idle"
  /\ caller = "none"
  /\ toolName = "none"
  /\ params = Undefined
  /\ handler = NoHandler
  /\ attempt = 0
  /\ sent = <<>>
  /\ waits = <<>>
  /\ error = NoError
  /\ requestOutcome = Pending
  /\ toolOutcome = Pending
  /\ serverOutcome = NoReply
  /\ calls = [i \in CallIds |-> IdleCall]
  /\ probe = IdleProbe
  /\ catalog = NoCatalog
  /\ construction = NotConstructed

\* the promise of executeTool settles; the request handler, if it is the
\* caller, builds its reply
Settle(who, name, outcome) ==
  /\ toolOutcome' = outcome
  /\ serverOutcome' = IF who = "server" THEN ServerReply(name, outcome) ELSE NoReply

\* (variant: the handlers read their arguments before the try block)
DispatchReadingOutsideTry(who, name, p) ==
  /\ pc = "idle"
  /\ caller' = who
  /\ toolName' = name
  /\ params' = p
  /\ handler' = Route(name)
  /\ waits' = <<>>
  /\ error' = NoError
  /\ UNCHANGED <<client, together>>
  /\ IF Route(name) = NoHandler
     THEN /\ Settle(who, name, Rejected(<<"Unknown tool: ", name>>))
          /\ pc' = "done"
          /\ attempt' = 0
          /\ sent' = <<>>
          /\ requestOutcome' = Pending
     ELSE LET request == HandlerRequest(Route(name), p)
          IN IF request.threw
             THEN /\ Settle(who, name, Rejected(request.value))
                  /\ pc' = "done"
                  /\ attempt' = 0
                  /\ sent' = <<>>
                  /\ requestOutcome' = Pending
             ELSE /\ attempt' = 1
                  /\ IF LoopContinues(1, client)
                     THEN /\ sent' = <<request.value>>
                          /\ pc' = "request"
                          /\ requestOutcome' = Pending
                          /\ Settle(who, name, Pending)
                     ELSE /\ sent' = <<>>
                          /\ pc' = "done"
                          /\ requestOutcome' = Resolved(Undefined)
                          /\ Settle(who, name,
                                    HandlerSettles(Route(name), p, Resolved(Undefined)))
\* executeTool(name, p) up to the first await of the handler it routes to
Dispatch(who, name, p) ==
  /\ pc = "idle"
  /\ caller' = who
  /\ toolName' = name
  /\ params' = p
  /\ handler' = Route(name)
  /\ waits' = <<>>
  /\ error' = NoError
  /\ UNCHANGED <<client, together>>
  /\ IF Route(name) = NoHandler
     THEN /\ Settle(who, name, Rejected(<<"Unknown tool: ", name>>))
          /\ pc' = "done"
          /\ attempt' = 0
          /\ sent' = <<>>
          /\ requestOutcome' = Pending
     ELSE LET request == HandlerRequest(Route(name), p)
          IN IF request.threw
             THEN /\ Settle(who, name, Resolved(Caught(Route(name), request.value)))
                  /\ pc' = "done"
                  /\ attempt' = 0
                  /\ sent' = <<>>
                  /\ requestOutcome' = Pending
             ELSE /\ attempt' = 1
                  /\ IF LoopContinues(1, client)
                     THEN /\ sent' = <<request.value>>
                          /\ pc' = "request"
                          /\ requestOutcome' = Pending
                          /\ Settle(who, name, Pending)
                     ELSE /\ sent' = <<>>
                          /\ pc' = "done"
                          /\ requestOutcome' = Resolved(Undefined)
                          /\ Settle(who, name,
                                    HandlerSettles(Route(name), p, Resolved(Undefined)))

\* a direct call tools.executeTool(name, p), as the unit tests make it;
\* the default parameter replaces a missing params
ExecuteTool(name, p) == Dispatch("test", name, Default(p, EmptyObj))

\* a tools/call request: the handler calls executeTool(name, args || {})
CallTool(name, args) == Dispatch("server", name, OrElse(args, EmptyObj))

\* (variant: a handler that cannot render the body asks for it once more)
AttemptSucceedsAskingAgain(body) ==
  /\ pc = "request"
  /\ IF HandlerRender(handler, params, body).threw /\ Len(sent) = attempt
     THEN /\ pc' = "request"
          /\ sent' = Append(sent, sent[1])
          /\ UNCHANGED <<requestOutcome, toolOutcome, serverOutcome>>
     ELSE /\ pc' = "done"
          /\ requestOutcome' = Resolved(body)
          /\ Settle(caller, toolName, HandlerSettles(handler, params, Resolved(body)))
          /\ UNCHANGED sent
  /\ UNCHANGED <<client, caller, toolName, params, handler, attempt, waits, error>>
  /\ UNCHANGED together
\* the attempt in flight succeeds with a response body
AttemptSucceeds(body) ==
  /\ pc = "request"
  /\ pc' = "done"
  /\ requestOutcome' = Resolved(body)
  /\ Settle(caller, toolName, HandlerSettles(handler, params, Resolved(body)))
  /\ UNCHANGED <<client, caller, toolName, params, handler, attempt, sent, waits, error>>
  /\ UNCHANGED together

\* (variant: the handler calls the client once more when makeRequest has
\* given up)
AttemptFailsHandlerRetrying(e) ==
  /\ pc = "request"
  /\ error' = e
  /\ IF GivesUp(attempt, client)
     THEN IF Len(sent) <= client.retryAttempts
          THEN /\ pc' = "request"
               /\ attempt' = 1
               /\ sent' = Append(sent, sent[1])
               /\ UNCHANGED <<waits, requestOutcome, toolOutcome, serverOutcome>>
          ELSE /\ pc' = "done"
               /\ requestOutcome' = Rejected(Interceptor(e))
               /\ Settle(caller, toolName,
                         HandlerSettles(handler, params, Rejected(Interceptor(e))))
               /\ UNCHANGED <<waits, attempt, sent>>
     ELSE /\ pc' = "backoff"
          /\ waits' = Append(waits, BackoffDelay(attempt, client))
          /\ UNCHANGED <<requestOutcome, toolOutcome, serverOutcome, attempt, sent>>
  /\ UNCHANGED <<client, caller, toolName, params, handler, together>>
\* the attempt in flight fails: the interceptor rethrows, and the catch block
\* of makeRequest either gives up or starts the backoff timer
AttemptFails(e) ==
  /\ pc = "request"
  /\ error' = e
  /\ IF GivesUp(attempt, client)
     THEN /\ pc' = "done"
          /\ requestOutcome' = Rejected(Interceptor(e))
          /\ Settle(caller, toolName,
                    HandlerSettles(handler, params, Rejected(Interceptor(e))))
          /\ UNCHANGED waits
     ELSE /\ pc' = "backoff"
          /\ waits' = Append(waits, BackoffDelay(attempt, client))
          /\ UNCHANGED <<requestOutcome, toolOutcome, serverOutcome>>
  /\ UNCHANGED <<client, caller, toolName, params, handler, attempt, sent, together>>

\* (variant: the loop counts the retries down in the field of the client)
BackoffElapsesCountingDown ==
  /\ pc = "backoff"
  /\ attempt < AttemptCap
  /\ attempt' = attempt + 1
  /\ error' = NoError
  /\ client' = [client EXCEPT !.retryAttempts = @ - 1]
  /\ IF LoopContinues(1, client')
     THEN /\ sent' = Append(sent, sent[1])
          /\ pc' = "request"
          /\ UNCHANGED <<requestOutcome, toolOutcome, serverOutcome>>
     ELSE /\ pc' = "done"
          /\ requestOutcome' = Resolved(Undefined)
          /\ Settle(caller, toolName, HandlerSettles(handler, params, Resolved(Undefined)))
          /\ UNCHANGED sent
  /\ UNCHANGED <<caller, toolName, params, handler, waits, together>>
\* the backoff timer fires: the loop increments its counter and, if it
\* continues, sends the same request again
BackoffElapses ==
  /\ pc = "backoff"
  /\ attempt < AttemptCap
  /\ attempt' = attempt + 1
  /\ error' = NoError
  /\ IF LoopContinues(attempt + 1, client)
     THEN /\ sent' = Append(sent, sent[1])
          /\ pc' = "request"
          /\ UNCHANGED <<requestOutcome, toolOutcome, serverOutcome>>
     ELSE /\ pc' = "done"
          /\ requestOutcome' = Resolved(Undefined)
          /\ Settle(caller, toolName, HandlerSettles(handler, params, Resolved(Undefined)))
          /\ UNCHANGED sent
  /\ UNCHANGED <<client, caller, toolName, params, handler, waits, together>>

\* the caller has consumed the outcome; the next invocation can start
Return ==
  /\ pc = "done"
  /\ pc' = "idle"
  /\ caller' = "none"
  /\ toolName' = "none"
  /\ params' = Undefined
  /\ handler' = NoHandler
  /\ attempt' = 0
  /\ sent' = <<>>
  /\ waits' = <<>>
  /\ error' = NoError
  /\ requestOutcome' = Pending
  /\ toolOutcome' = Pending
  /\ serverOutcome' = NoReply
  /\ UNCHANGED <<client, together>>

\* the arguments values tried for a name
ArgValues(name) == ArgsFor(name) \cup {Undefined, Null}

Next ==
  \/ \E name \in Names : \E p \in ArgValues(name) : ExecuteTool(name, p)
  \/ \E name \in Names : \E args \in ArgValues(name) : CallTool(name, args)
  \/ \E body \in BodiesFor(handler) : AttemptSucceeds(body)
  \/ \E e \in AxiosErrors : AttemptFails(e)
  \/ BackoffElapses
  \/ Return

Spec == Init /\ [][Next]_vars

\* the attempt in flight is answered: axios resolves, or rejects with a
\* response, a connection failure or its timeout
Responds ==
  \/ \E body \in BodiesFor(handler) : AttemptSucceeds(body)
  \/ \E e \in AxiosErrors : AttemptFails(e)

\* every attempt in flight is eventually answered (axios enforces the timeout
\* of the client) and every backoff timer (setTimeout) eventually fires
\* the invocations are direct calls of executeTool, with params omitted or
\* with arguments that satisfy the schema and leave limit out
PlainArgs(name) ==
  {Undefined} \cup {p \in ArgsFor(name) :
                      SatisfiesSchema(name, p) /\ Get(p, "limit") = Undefined}

FairNext ==
  \/ \E name \in Names : \E p \in PlainArgs(name) : ExecuteTool(name, p)
  \/ Responds
  \/ BackoffElapses
  \/ Return

FairSpec == Init /\ [][FairNext]_vars /\ WF_vars(Responds) /\ WF_vars(BackoffElapses)

(***************************************************************************)
(* Invocations in flight together (test.js, runBenchmark): several         *)
(* executeTool('netcores_health_check') calls on the same client, each in  *)
(* its own activation of makeRequest, interleaved at their awaits          *)
(***************************************************************************)
\* the failures tried for the attempts of the invocations started together
TransientErrors ==
  {e \in AxiosErrors : e.status = 503 \/ e.message = "connect ECONNREFUSED"}

\* the bodies tried for their successful attempts
BenchmarkBodies ==
  {b \in HealthBodies : b = EmptyObj \/ Get(b, "status") = JStr("healthy")}

\* a response to an attempt, as the call that made the attempt receives it
Success(body) == [ok |-> TRUE, body |-> body, error |-> NoError]
Failure(e) == [ok |-> FALSE, body |-> Undefined, error |-> e]

\* makeRequest has settled: healthCheck, and with it executeTool, settles
CallSettles(c, awaited) ==
  [c EXCEPT !.pc = "done",
            !.requestOutcome = awaited,
            !.toolOutcome = HandlerSettles("healthCheck", EmptyObj, awaited)]

\* executeTool('netcores_health_check') up to the first await
CallStarts(i) ==
  /\ calls[i].pc = "idle"
  /\ calls' = [calls EXCEPT ![i] =
                 IF LoopContinues(1, client)
                 THEN [@ EXCEPT !.pc = "request", !.attempt = 1, !.requests = 1]
                 ELSE CallSettles([@ EXCEPT !.attempt = 1], Resolved(Undefined))]
  /\ UNCHANGED <<client, invocation, probe, catalog, construction>>

\* (variant: makeRequest returns the response, not its data)
CallAttemptSucceedsWithResponse(i, body) ==
  /\ calls[i].pc = "request"
  /\ calls' = [calls EXCEPT ![i] =
                 CallSettles([@ EXCEPT !.responses = Append(@, Success(body))],
                             Resolved(JObj([status |-> JInt(200), data |-> body])))]
  /\ UNCHANGED <<client, invocation, probe, catalog, construction>>
\* the attempt in flight of invocation i succeeds
CallAttemptSucceeds(i, body) ==
  /\ calls[i].pc = "request"
  /\ calls' = [calls EXCEPT ![i] =
                 CallSettles([@ EXCEPT !.responses = Append(@, Success(body))],
                             Resolved(body))]
  /\ UNCHANGED <<client, invocation, probe, catalog, construction>>

\* (variant: the timer is started but not awaited, the next attempt is sent
\* at once)
CallAttemptFailsNotAwaiting(i, e) ==
  /\ calls[i].pc = "request"
  /\ calls' = [calls EXCEPT ![i] =
                 IF GivesUp(@.attempt, client)
                 THEN CallSettles([@ EXCEPT !.responses = Append(@, Failure(e))],
                                  Rejected(Interceptor(e)))
                 ELSE [@ EXCEPT !.responses = Append(@, Failure(e)),
                                !.attempt = @ + 1,
                                !.requests = @ + 1,
                                !.waits = Append(@, BackoffDelay(calls[i].attempt, client))]]
  /\ UNCHANGED <<client, invocation, probe, catalog, construction>>
\* the attempt in flight of invocation i fails
CallAttemptFails(i, e) ==
  /\ calls[i].pc = "request"
  /\ calls' = [calls EXCEPT ![i] =
                 IF GivesUp(@.attempt, client)
                 THEN CallSettles([@ EXCEPT !.responses = Append(@, Failure(e))],
                                  Rejected(Interceptor(e)))
                 ELSE [@ EXCEPT !.responses = Append(@, Failure(e)),
                                !.pc = "backoff",
                                !.waits = Append(@, BackoffDelay(calls[i].attempt, client))]]
  /\ UNCHANGED <<client, invocation, probe, catalog, construction>>

\* (variant: the loop counter is a field of the client, shared by the
\* invocations in flight)
CallBackoffElapsesShared(i) ==
  /\ calls[i].pc = "backoff"
  /\ LET counted == [j \in CallIds |->
                       IF calls[j].pc \in {"request", "backoff"}
                       THEN [calls[j] EXCEPT !.attempt = @ + 1]
                       ELSE calls[j]]
     IN calls' = [counted EXCEPT ![i] =
                    IF LoopContinues(@.attempt, client)
                    THEN [@ EXCEPT !.pc = "request", !.requests = @ + 1]
                    ELSE CallSettles(@, Resolved(Undefined))]
  /\ UNCHANGED <<client, invocation, probe, catalog, construction>>
\* the backoff timer of invocation i fires: its own loop counter (let attempt)
\* is incremented
CallBackoffElapses(i) ==
  /\ calls[i].pc = "backoff"
  /\ calls' = [calls EXCEPT ![i] =
                 IF LoopContinues(@.attempt + 1, client)
                 THEN [@ EXCEPT !.attempt = @ + 1, !.pc = "request", !.requests = @ + 1]
                 ELSE CallSettles([@ EXCEPT !.attempt = @ + 1], Resolved(Undefined))]
  /\ UNCHANGED <<client, invocation, probe, catalog, construction>>

TogetherNext ==
  \/ \E i \in CallIds : CallStarts(i)
  \/ \E i \in CallIds : \E body \in BenchmarkBodies : CallAttemptSucceeds(i, body)
  \/ \E i \in CallIds : \E e \in TransientErrors : CallAttemptFails(i, e)
  \/ \E i \in CallIds : CallBackoffElapses(i)

TogetherSpec == Init /\ [][TogetherNext]_vars

(***************************************************************************)
(* The listing of the tools (server.js, the tools/list handler; the unit   *)
(* tests): a caller is given the array getToolDefinitions returns and is   *)
(* free to change it                                                       *)
(***************************************************************************)
\* (variant: the array is built once and the same array is handed out again)
ListToolsCached ==
  /\ catalog' = [catalog EXCEPT
                   !.held = IF catalog.listed THEN catalog.held ELSE GetToolDefinitions,
                   !.listed = TRUE,
                   !.asReturned = TRUE]
  /\ UNCHANGED <<client, invocation, calls, probe, construction>>
\* a caller asks for the definitions and holds the array it is given
ListTools ==
  /\ catalog' = [catalog EXCEPT !.held = GetToolDefinitions,
                                !.listed = TRUE,
                                !.asReturned = TRUE]
  /\ UNCHANGED <<client, invocation, calls, probe, construction>>

\* the caller has changed the array it holds
Changed(held) ==
  /\ catalog.listed
  /\ catalog.changes < MaxChanges
  /\ catalog' = [catalog EXCEPT !.held = held,
                                !.asReturned = FALSE,
                                !.changes = @ + 1]
  /\ UNCHANGED <<client, invocation, calls, probe, construction>>

\* definitions.pop()
Pop ==
  /\ Len(catalog.held) > 0
  /\ Changed(SubSeq(catalog.held, 1, Len(catalog.held) - 1))

\* definitions.reverse()
Reverse ==
  Changed([i \in 1..Len(catalog.held) |-> catalog.held[Len(catalog.held) + 1 - i]])

\* definitions[i].name = name
Rename(i, name) ==
  /\ i \in 1..Len(catalog.held)
  /\ Changed([catalog.held EXCEPT ![i].name = name])

CatalogNext ==
  \/ ListTools
  \/ Pop
  \/ Reverse
  \/ \E i \in 1..Len(ToolNames) : \E name \in {"renamed", ToolNames[1]} : Rename(i, name)

CatalogSpec == Init /\ [][CatalogNext]_vars

(***************************************************************************)
(* client.js: testConnection, the probe that the --test option of the      *)
(* server and the test scripts run on a client                             *)
(***************************************************************************)
\* the bodies tried for the health endpoint: those of HealthBodies, a JSON
\* null and a text that is not JSON
ProbeBodies == HealthBodies \cup {Null, JStr("<html>")}

\* (variant: the fields of the payload are read after the try block)
TestConnectionSettlesUnguarded(awaited, c) ==
  IF awaited.state = "rejected"
  THEN Resolved([success |-> FALSE, error |-> awaited.reason, baseUrl |-> c.baseUrl])
  ELSE IF Nullish(awaited.value)
  THEN Rejected(ReadOfNullish(awaited.value, "status"))
  ELSE Resolved([success |-> TRUE,
                 status |-> Get(awaited.value, "status"),
                 version |-> Get(awaited.value, "version"),
                 dataStatus |-> Get(awaited.value, "data_status"),
                 baseUrl |-> c.baseUrl])
\* what the promise of testConnection settles to once healthCheck has settled
TestConnectionSettles(awaited, c) ==
  IF awaited.state = "rejected"
  THEN Resolved([success |-> FALSE, error |-> awaited.reason, baseUrl |-> c.baseUrl])
  ELSE IF Nullish(awaited.value)
  THEN Resolved([success |-> FALSE,
                 error |-> ReadOfNullish(awaited.value, "status"),
                 baseUrl |-> c.baseUrl])
  ELSE Resolved([success |-> TRUE,
                 status |-> Get(awaited.value, "status"),
                 version |-> Get(awaited.value, "version"),
                 dataStatus |-> Get(awaited.value, "data_status"),
                 baseUrl |-> c.baseUrl])

\* healthCheck has settled, and with it testConnection
ProbeSettles(awaited) ==
  probe' = [probe EXCEPT !.pc = "done",
                         !.requestOutcome = awaited,
                         !.connection = TestConnectionSettles(awaited, client)]

\* client.testConnection() up to the await of the first attempt
TestConnection ==
  /\ probe.pc = "idle"
  /\ IF LoopContinues(1, client)
     THEN probe' = [probe EXCEPT !.pc = "request", !.attempt = 1,
                                 !.sent = <<ClientHealthCheck>>]
     ELSE probe' = [probe EXCEPT !.pc = "done", !.attempt = 1,
                                 !.requestOutcome = Resolved(Undefined),
                                 !.connection =
                                    TestConnectionSettles(Resolved(Undefined), client)]
  /\ UNCHANGED <<client, invocation, calls, catalog, construction>>

\* the attempt in flight of the probe succeeds
ProbeSucceeds(body) ==
  /\ probe.pc = "request"
  /\ ProbeSettles(Resolved(body))
  /\ UNCHANGED <<client, invocation, calls, catalog, construction>>

\* the attempt in flight of the probe fails
ProbeFails(e) ==
  /\ probe.pc = "request"
  /\ IF GivesUp(probe.attempt, client)
     THEN probe' = [probe EXCEPT !.pc = "done", !.error = e,
                                 !.requestOutcome = Rejected(Interceptor(e)),
                                 !.connection =
                                    TestConnectionSettles(Rejected(Interceptor(e)), client)]
     ELSE probe' = [probe EXCEPT !.pc = "backoff", !.error = e,
                                 !.waits = Append(@, BackoffDelay(probe.attempt, client))]
  /\ UNCHANGED <<client, invocation, calls, catalog, construction>>

\* the backoff timer of the probe fires
ProbeBackoffElapses ==
  /\ probe.pc = "backoff"
  /\ probe.attempt < AttemptCap
  /\ IF LoopContinues(probe.attempt + 1, client)
     THEN probe' = [probe EXCEPT !.pc = "request", !.attempt = @ + 1, !.error = NoError,
                                 !.sent = Append(@, ClientHealthCheck)]
     ELSE probe' = [probe EXCEPT !.pc = "done", !.attempt = @ + 1, !.error = NoError,
                                 !.requestOutcome = Resolved(Undefined),
                                 !.connection =
                                    TestConnectionSettles(Resolved(Undefined), client)]
  /\ UNCHANGED <<client, invocation, calls, catalog, construction>>

\* the caller has read the result; the client can be probed again
ProbeReturn ==
  /\ probe.pc = "done"
  /\ probe' = IdleProbe
  /\ UNCHANGED <<client, invocation, calls, catalog, construction>>

ProbeNext ==
  \/ TestConnection
  \/ \E body \in ProbeBodies : ProbeSucceeds(body)
  \/ \E e \in AxiosErrors : ProbeFails(e)
  \/ ProbeBackoffElapses
  \/ ProbeReturn

ProbeSpec == Init /\ [][ProbeNext]_vars

(***************************************************************************)
(* client.js: the construction of a client with a base URL and options, as *)
(* the unit tests and the callers that configure their own client do it    *)
(***************************************************************************)
\* the base URLs passed: none, with no, one or two trailing separators, with
\* a path, empty, and a separator alone
BaseUrlArgs ==
  {Undefined}
  \cup {JStr(u) : u \in {DefaultBaseUrl,
                         <<"http:", "/", "/", "localhost:8889">>,
                         <<"http:", "/", "/", "example.com", "/">>,
                         <<"http:", "/", "/", "example.com", "/", "api", "/">>,
                         <<"http:", "/", "/", "example.com", "/", "/">>,
                         <<"/">>,
                         <<>>}}

\* the options passed: those of OptionArgs, with or without a timeout
ConstructorOptions ==
  {Undefined}
  \cup {JObj(o.v @@ t) : o \in OptionArgs,
                         t \in Optional("timeout", {JInt(0), JInt(5000)})}

\* new NetCoresAPIClient(baseUrl, options)
New(baseUrl, options) ==
  /\ client' = Constructor(baseUrl, Default(options, EmptyObj))
  /\ construction' = [given |-> TRUE, baseUrl |-> baseUrl, options |-> options,
                      from |-> <<>>]
  /\ UNCHANGED <<invocation, calls, probe, catalog>>

\* new NetCoresAPIClient(other.baseUrl, options): a client for the URL that
\* another client has stored
NewFromStored(options) ==
  /\ construction.given
  /\ client' = Constructor(JStr(client.baseUrl), Default(options, EmptyObj))
  /\ construction' = [given |-> TRUE, baseUrl |-> JStr(client.baseUrl),
                      options |-> options, from |-> <<client.baseUrl>>]
  /\ UNCHANGED <<invocation, calls, probe, catalog>>

ConstructNext ==
  \/ \E b \in BaseUrlArgs : \E o \in ConstructorOptions : New(b, o)
  \/ \E o \in ConstructorOptions : NewFromStored(o)

ConstructSpec == Init /\ [][ConstructNext]_vars

(***************************************************************************)
(* Properties                                                              *)
(***************************************************************************)
Done == pc = "done"

\* C1: with retryAttempts = N >= 1, no more than N HTTP attempts are ever
\* issued for a call, and a call rejects only after exactly N attempts, with
\* the error of the attempt that failed last.
C1_RetryBound ==
  client.retryAttempts >= 1 =>
    /\ Len(sent) <= client.retryAttempts
    /\ requestOutcome.state = "rejected" =>
         /\ Len(sent) = client.retryAttempts
         /\ attempt = client.retryAttempts
         /\ requestOutcome.reason = Interceptor(error)

C1_Witness ==
  /\ Done
  /\ client.retryAttempts = DefaultRetryAttempts
  /\ requestOutcome.state = "rejected"
  /\ IsConnectionError(error)
  /\ Len(sent) = DefaultRetryAttempts

\* C2: a call whose attempt failed with a 4xx response is not retried: the
\* error is surfaced at once, no backoff wait follows it.
C2_ClientErrorNotRetried ==
  IsClientError(error) => (Done /\ requestOutcome.state = "rejected")

\* C3 (as stated): executeTool never rejects, whatever the tool name.
C3_NeverRejects == toolOutcome.state # "rejected"

\* C3 (amended): executeTool never rejects for a registered tool name: every
\* failure of a handler is returned as a text; the only rejection is the
\* one for a name that is not registered.
C3_RegisteredNeverRejects ==
  /\ (Done /\ toolName \in Registered) => toolOutcome.state = "resolved"
  /\ toolOutcome.state = "rejected" => toolName \notin Registered

C3_Witness ==
  /\ Done
  /\ toolName \in Registered
  /\ Len(sent) > 0
  /\ requestOutcome.state = "resolved"
  /\ HandlerRender(handler, params, requestOutcome.value).threw
  /\ toolOutcome.state = "resolved"

\* C4: for a tool name that is not registered no handler is entered and no
\* HTTP request is issued.
C4_UnknownToolNoRequest ==
  toolName \notin Registered =>
    /\ sent = <<>>
    /\ attempt = 0
    /\ handler = NoHandler
    /\ requestOutcome = Pending

C4_Witness ==
  /\ Done
  /\ toolName = "NETCORES_HEALTH_CHECK"
  /\ sent = <<>>

\* C5: executeTool called with a name that is not registered rejects with
\* an Error whose message starts with 'Unknown tool'.
C5_UnknownToolRejects ==
  (Done /\ toolName \notin Registered) =>
    /\ toolOutcome.state = "rejected"
    /\ toolOutcome.reason = <<"Unknown tool: ", toolName>>

C5_Witness ==
  /\ Done
  /\ caller = "test"
  /\ toolName = "nonexistent_tool"
  /\ toolOutcome.state = "rejected"

OneTextItem(reply) ==
  /\ reply.state = "result"
  /\ Len(reply.content) = 1
  /\ reply.content[1].type = "text"

\* C6 (as stated): every tools/call request completes with exactly one text
\* item, whatever the tool name.
C6_AlwaysOneText == (Done /\ caller = "server") => OneTextItem(serverOutcome)

\* C6 (amended): a tools/call request for a registered tool completes with
\* exactly one text item; a request for a name that is not registered
\* completes by raising the protocol error MethodNotFound.
C6_OneTextOrMethodNotFound ==
  (Done /\ caller = "server") =>
    IF toolName \in Registered
    THEN OneTextItem(serverOutcome) /\ serverOutcome.content[1].text = toolOutcome.value
    ELSE serverOutcome.state = "error" /\ serverOutcome.code = "MethodNotFound"

C6_Witness ==
  /\ Done
  /\ caller = "server"
  /\ toolName \in Registered
  /\ requestOutcome.state = "rejected"
  /\ OneTextItem(serverOutcome)

\* C7: when the Transport Client call of a handler rejects, executeTool
\* resolves to a text that starts with the failure marker and embeds the
\* message of the rejected error.
C7_FailureText ==
  (Done /\ requestOutcome.state = "rejected") =>
    /\ toolOutcome.state = "resolved"
    /\ toolOutcome.value[1] = CrossMark
    /\ EndsWith(toolOutcome.value, Interceptor(error))

C7_Witness ==
  /\ Done
  /\ handler = "triggerUpdate"
  /\ requestOutcome.state = "rejected"
  /\ toolOutcome.value[1] = CrossMark

\* the trend_data of the body makeRequest resolved with
ReceivedPoints == Get(requestOutcome.value, "trend_data").v

\* an asnTrend invocation with an explicit limit >= 0 has received a body
\* with at least one point, all of them well formed
TrendRendered ==
  /\ Done
  /\ handler = "asnTrend"
  /\ requestOutcome.state = "resolved"
  /\ IsArray(Get(requestOutcome.value, "trend_data"))
  /\ Len(ReceivedPoints) >= 1
  /\ WellFormed(ReceivedPoints)
  /\ IsInteger(Get(params, "limit"))
  /\ Get(params, "limit").v >= 0

TrendTextEnd(showing, points) ==
  showing \o <<"**Trend Data:**\n">> \o PointLines(points, "- ").value

\* C8: tail-window law of netcores_asn_trend.  With L >= 1 points and
\* limit k: if 0 < k < L the text ends with 'Most recent k of L data points'
\* and the lines of the last k points in their order; if k = 0 or k >= L it
\* ends with 'All L data points' and the lines of all the points, and does
\* not say 'Most recent'.
C8_TailWindow ==
  TrendRendered =>
    LET k == Get(params, "limit").v
        L == Len(ReceivedPoints)
        text == toolOutcome.value
    IN IF 0 < k /\ k < L
       THEN EndsWith(text,
              TrendTextEnd(<<"**Showing:** Most recent ", ToString(k), " of ", ToString(L),
                             " data points\n", "*Use limit=0 to see all data*\n\n">>,
                           SubSeq(ReceivedPoints, L - k + 1, L)))
       ELSE /\ EndsWith(text,
                 TrendTextEnd(<<"**Showing:** All ", ToString(L), " data points\n\n">>,
                              ReceivedPoints))
            /\ ~Contains(text, <<"**Showing:** Most recent ">>)

C8_Witness ==
  /\ TrendRendered
  /\ Get(params, "limit").v = 2
  /\ ReceivedPoints = <<PointFull, PointSparse, PointFull>>
  /\ Contains(toolOutcome.value, <<"**Showing:** Most recent ", "2", " of ", "3">>)

\* the ASNs of the section headings of a text, in the order of the text
AsnHeadings(text) ==
  LET at == SortAsc({i \in 1..(Len(text) - 1) : text[i] = "**ASN "})
  IN [j \in 1..Len(at) |-> text[at[j] + 1]]

\* a multipleAsnTrends invocation with a list of ASNs has received a body
\* whose trend_data is keyed by exactly these ASNs
MultiTrendRendered ==
  /\ Done
  /\ handler = "multipleAsnTrends"
  /\ requestOutcome.state = "resolved"
  /\ SatisfiesSchema(toolName, params)
  /\ Get(requestOutcome.value, "trend_data") # Undefined
  /\ Range(Get(requestOutcome.value, "trend_data").keys)
       = {Get(params, "asns").v[i].v : i \in 1..Len(Get(params, "asns").v)}
  /\ toolOutcome.value[1] # CrossMark

\* C9: the per-ASN sections of the text of netcores_multiple_asn_trends come
\* in the order of the asns argument, whatever the order of the response.
C9_CallerOrder ==
  MultiTrendRendered =>
    AsnHeadings(toolOutcome.value)
      = [i \in 1..Len(Get(params, "asns").v) |-> ToString(Get(params, "asns").v[i].v)]

\* C10: for arguments that violate the schema of the tool, no handler runs
\* and no HTTP request is issued.
C10_SchemaBeforeHandler ==
  (toolName \in Registered /\ ~SatisfiesSchema(toolName, params)) =>
    (handler = NoHandler /\ sent = <<>>)

\* the sum of the delays of a sequence of waits
TotalWaited(ws) ==
  LET RECURSIVE sumTo(_)
      sumTo(n) == IF n = 0 THEN 0 ELSE ws[n] + sumTo(n - 1)
  IN sumTo(Len(ws))

\* C11: the k-th backoff wait of a call lasts retryDelay * 2^(k-1) ms; a wait
\* follows each failed attempt but the last one, so a call that rejects after
\* N >= 1 failed attempts has waited N - 1 times, retryDelay * (2^(N-1) - 1) ms
\* in total, which is 3000 ms for the default N = 3 and retryDelay = 1000.
C11_BackoffSchedule ==
  /\ \A k \in 1..Len(waits) : waits[k] = client.retryDelay * (2 ^ (k - 1))
  /\ pc = "backoff" => Len(waits) = attempt
  /\ pc = "request" => Len(waits) = attempt - 1
  /\ requestOutcome.state = "rejected" =>
       /\ Len(waits) = client.retryAttempts - 1
       /\ TotalWaited(waits) = client.retryDelay * (2 ^ (client.retryAttempts - 1) - 1)
       /\ (client.retryAttempts = 3 /\ client.retryDelay = 1000) => TotalWaited(waits) = 3000

C11_Witness ==
  /\ Done
  /\ requestOutcome.state = "rejected"
  /\ client.retryAttempts = DefaultRetryAttempts
  /\ client.retryDelay = DefaultRetryDelay
  /\ waits = <<1000, 2000>>

\* what a call is, given nothing but the responses to its own attempts
AloneWith(c) ==
  LET h == c.responses
      n == Len(h)
      N == client.retryAttempts
      settled == N < 1 \/ (n > 0 /\ (h[n].ok \/ n = N))
  IN /\ \A k \in 1..(n - 1) : ~h[k].ok
     /\ n <= N \/ n = 0
     /\ (c.pc = "done") = (c.pc # "idle" /\ settled)
     /\ c.requests = n + (IF c.pc = "request" THEN 1 ELSE 0)
     /\ c.pc = "request" => c.attempt = n + 1
     /\ c.pc = "backoff" => c.attempt = n
     /\ c.waits = [k \in 1..(IF n > 0 /\ (h[n].ok \/ n = N) THEN n - 1 ELSE n)
                     |-> client.retryDelay * (2 ^ (k - 1))]
     /\ c.pc = "done" =>
          c.requestOutcome = IF n = 0 THEN Resolved(Undefined)
                             ELSE IF h[n].ok THEN Resolved(h[n].body)
                             ELSE Rejected(Interceptor(h[n].error))
     /\ c.pc = "done" =>
          c.toolOutcome = HandlerSettles("healthCheck", EmptyObj, c.requestOutcome)
     /\ c.pc # "done" => (c.requestOutcome = Pending /\ c.toolOutcome = Pending)

\* C12: of the invocations in flight together on one client, each has its
\* own attempt counter and backoff: under every interleaving the number of
\* attempts, the waits and the outcome of a call are determined by the
\* responses to its own attempts, and a call is given up only after
\* retryAttempts failures of its own.
C12_CallsIndependent == \A i \in CallIds : AloneWith(calls[i])

C12_Witness ==
  /\ client.retryAttempts = 2
  /\ calls[1].pc = "done"
  /\ calls[1].requestOutcome.state = "rejected"
  /\ calls[1].requests = 2
  /\ calls[2].pc = "done"
  /\ calls[2].requestOutcome.state = "resolved"
  /\ calls[2].requests = 2
  /\ Len(calls[2].responses) = 2

\* C13: provided every attempt is eventually answered and every backoff timer
\* eventually fires, every executeTool invocation eventually completes, its
\* promise settled one way or the other: the retry loop does not run forever.
C13_EventuallyCompletes ==
  (pc # "idle") ~> (Done /\ toolOutcome.state \in {"resolved", "rejected"})

C13_Witness ==
  /\ Done
  /\ attempt = DefaultRetryAttempts
  /\ Len(waits) = DefaultRetryAttempts - 1
  /\ toolOutcome.state = "resolved"
  /\ toolOutcome.value[1] = CrossMark

\* the payload the health probe of the connection test returned, if any
ProbePayload ==
  IF probe.requestOutcome.state = "resolved" /\ ~Nullish(probe.requestOutcome.value)
  THEN {probe.requestOutcome.value}
  ELSE {}

\* C14: testConnection never rejects: it resolves with a boolean success,
\* which is true exactly when the health probe returned a payload (status,
\* version and data_status of the payload are then copied to status, version
\* and dataStatus); otherwise success is false and error is a string.
C14_TestConnectionResolves ==
  /\ probe.connection.state # "rejected"
  /\ probe.pc = "done" =>
       /\ probe.connection.state = "resolved"
       /\ LET result == probe.connection.value
          IN /\ result.success \in BOOLEAN
             /\ result.success = (ProbePayload # {})
             /\ result.baseUrl = client.baseUrl
             /\ result.success =>
                  \A payload \in ProbePayload :
                    /\ result.status = Get(payload, "status")
                    /\ result.version = Get(payload, "version")
                    /\ result.dataStatus = Get(payload, "data_status")
             /\ ~result.success =>
                  /\ Len(result.error) > 0
                  /\ \A k \in 1..Len(result.error) : result.error[k] \in STRING

C14_Witness ==
  /\ probe.pc = "done"
  /\ probe.requestOutcome = Resolved(Null)
  /\ Len(probe.sent) = 2
  /\ ~probe.connection.value.success

\* C15: executeTool routes exactly the names that getToolDefinitions lists:
\* the i-th listed name enters the i-th handler method and is never reported
\* as unknown, whatever the arguments; any other name, one that differs from
\* a listed name only in letter case included, enters no handler and is
\* reported as unknown.
C15_RoutesExactlyListed ==
  pc # "idle" =>
    LET listedAt == {i \in 1..Len(ToolNames) : ToolNames[i] = toolName}
        unknown == Rejected(<<"Unknown tool: ", toolName>>)
    IN /\ \A i \in listedAt : handler = HandlerMethods[i]
       /\ listedAt # {} => toolOutcome # unknown
       /\ listedAt = {} => handler = NoHandler /\ toolOutcome = unknown

C15_Witness ==
  /\ Done
  /\ caller = "server"
  /\ toolName = ToolNames[Len(ToolNames)]
  /\ handler = "triggerUpdate"
  /\ requestOutcome.state = "resolved"

\* C16: whenever getToolDefinitions has just returned, the caller holds the
\* same 8 definitions, with pairwise distinct names, in the order of their
\* declaration, whatever a caller has done before to the lists it was given.
C16_SameDefinitions ==
  catalog.asReturned =>
    LET names == [i \in 1..Len(catalog.held) |-> catalog.held[i].name]
    IN /\ Len(names) = 8
       /\ \A i, j \in 1..Len(names) : i # j => names[i] # names[j]
       /\ names = <<"netcores_health_check", "netcores_data_summary",
                    "netcores_asn_trend", "netcores_multiple_asn_trends",
                    "netcores_snapshots", "netcores_refresh_data",
                    "netcores_scheduler_status", "netcores_trigger_update">>
       /\ \A i \in 1..Len(names) :
            catalog.held[i].required =
              (IF names[i] = "netcores_asn_trend" THEN <<"asn">>
               ELSE IF names[i] = "netcores_multiple_asn_trends" THEN <<"asns">>
               ELSE <<>>)

C16_Witness ==
  /\ catalog.asReturned
  /\ catalog.changes = MaxChanges
  /\ Len(catalog.held) = 8

\* the arguments of the invocation, every omitted optional argument filled
\* in with the default that the schema of the tool declares
WithSchemaDefaults == JObj(params.v @@ SchemaDefaults(toolName))

\* C17: an invocation that omits an optional argument sends the request and
\* returns the text of the invocation that passes the default declared in
\* the schema of the tool (ip_version 'ipv4' and limit 20 or 10 for the trend
\* tools, ip_versions ['ipv4', 'ipv6'] for netcores_refresh_data).
C17_DefaultsAsDeclared ==
  (handler # NoHandler /\ params.t = "object") =>
    /\ \A i \in 1..Len(sent) : sent[i] = HandlerRequest(handler, WithSchemaDefaults).value
    /\ (Done /\ requestOutcome.state # "pending") =>
         toolOutcome = HandlerSettles(handler, WithSchemaDefaults, requestOutcome)

C17_Witness ==
  /\ Done
  /\ handler = "asnTrend"
  /\ Get(params, "limit") = Undefined
  /\ Get(params, "ip_version") = Undefined
  /\ requestOutcome.state = "resolved"
  /\ Contains(toolOutcome.value, <<"**Showing:** Most recent ", "20", " of ", "21">>)

\* how many times a token occurs in a text
Count(text, token) == Cardinality({i \in 1..Len(text) : text[i] = token})

\* the invocation has received a body and rendered it without a failure
SuccessText ==
  /\ Done
  /\ requestOutcome.state = "resolved"
  /\ toolOutcome.state = "resolved"
  /\ toolOutcome.value[1] # CrossMark

\* the entries of the body that the data summary has a section for
SummaryEntries == Range(EntryKeys(requestOutcome.value))

\* the lines of the layout that do not depend on a date range: each is in the
\* text once (once per entry for the data summary)
FieldLinesPrinted ==
  LET text == toolOutcome.value
      body == requestOutcome.value
  IN CASE handler = "healthCheck" ->
            /\ Count(text, "\n\n**System Status:** ") = 1
            /\ Count(text, "\n**Version:** ") = 1
            /\ Count(text, "\n**Data Status:** ") = 1
            /\ Count(text, "\n- Tables: ") = 1
       [] handler \in {"asnTrend", "multipleAsnTrends"} ->
            Count(text, "**IP Version:** ") = 1
       [] handler = "dataSummary" ->
            /\ Count(text, "- Snapshots: ") = Cardinality(SummaryEntries)
            /\ Count(text, "- Total ASNs: ") = Cardinality(SummaryEntries)
            /\ Count(text, "- Max Shell Index: ") = Cardinality(SummaryEntries)
       [] handler = "schedulerStatus" ->
            /\ Count(text, "**Running:** ") = 1
            /\ Count(text, "**Enabled:** ") = 1
            /\ Count(text, "**Schedule:** ") = 1
       [] handler = "triggerUpdate" ->
            /\ Count(text, "**Timestamp:** ") = 1
       [] OTHER -> TRUE

C19_ClientUnchanged ==
  [][/\ client' = client
     /\ pc = "idle" => (attempt = 0 /\ sent = <<>> /\ waits = <<>> /\ error = NoError)
     /\ (pc = "idle" /\ pc' = "request") =>
          (attempt' = 1 /\ Len(sent') = 1 /\ waits' = <<>>)]_vars

C19_Witness ==
  /\ Done
  /\ caller = "server"
  /\ requestOutcome.state = "rejected"
  /\ Len(waits) = 1
  /\ client = Constructor(Undefined, JObj([retryAttempts |-> JInt(2)]))

\* the method and the path of the endpoint of each tool
EndpointOf(name) ==
  CASE name = "netcores_health_check" -> <<"GET", "/api/health">>
    [] name = "netcores_data_summary" -> <<"GET", "/api/summary">>
    [] name = "netcores_asn_trend" -> <<"GET", "/api/trends/">>
    [] name = "netcores_multiple_asn_trends" -> <<"POST", "/api/trends">>
    [] name = "netcores_snapshots" -> <<"GET", "/api/snapshots">>
    [] name = "netcores_refresh_data" -> <<"POST", "/api/refresh">>
    [] name = "netcores_scheduler_status" -> <<"GET", "/api/scheduler/status">>
    [] name = "netcores_trigger_update" -> <<"POST", "/api/scheduler/update">>

\* the request names a query parameter or a field of its JSON data
Sends(request, name) ==
  \/ Count(request.url, name) > 0
  \/ Get(request.data, name) # Undefined

\* C20: every request of a registered tool goes to the endpoint of the tool,
\* with its method; for netcores_asn_trend the path ends with the asn.  The
\* request carries start_date or end_date only when the caller supplied it,
\* and a snapshots request carries ip_version only when the caller did.
C20_OwnEndpoint ==
  toolName \in Registered =>
    \A i \in 1..Len(sent) :
      LET request == sent[i]
          path == IF toolName = "netcores_asn_trend"
                  THEN <<"/api/trends/">> \o Str(Get(params, "asn"))
                  ELSE <<EndpointOf(toolName)[2]>>
      IN /\ request.method = EndpointOf(toolName)[1]
         /\ Len(request.url) >= Len(path)
         /\ SubSeq(request.url, 1, Len(path)) = path
         /\ Len(request.url) > Len(path) => request.url[Len(path) + 1] = "?"
         /\ Sends(request, "start_date") = Truthy(Get(params, "start_date"))
         /\ Sends(request, "end_date") = Truthy(Get(params, "end_date"))
         /\ toolName = "netcores_snapshots" =>
              Sends(request, "ip_version") = Truthy(Get(params, "ip_version"))

C20_Witness ==
  /\ Done
  /\ toolName = "netcores_snapshots"
  /\ Get(params, "ip_version") = Undefined
  /\ Len(sent) = 2
  /\ sent[2].url = <<"/api/snapshots">>

\* the value of an option that was passed, the given default otherwise
PassedOr(name, default) ==
  LET passed == Get(Default(construction.options, EmptyObj), name)
  IN IF passed = Undefined THEN default ELSE passed.v

\* C21: a constructed client holds timeout, retryAttempts and retryDelay
\* exactly as they were passed in the options, and 30000, 3 and 1000 for those
\* that were not passed; its base URL is https://netcores.fi.uba.ar when none
\* was passed.
C21_StoredAsPassed ==
  construction.given =>
    /\ client.timeout = PassedOr("timeout", 30000)
    /\ client.retryAttempts = PassedOr("retryAttempts", 3)
    /\ client.retryDelay = PassedOr("retryDelay", 1000)
    /\ construction.baseUrl = Undefined =>
         client.baseUrl = <<"https:", "/", "/", "netcores.fi.uba.ar">>

\* C22: the stored base URL of a constructed client never ends with the
\* separator '/'; a URL passed without a trailing '/' is stored unchanged, and
\* a client constructed from the URL that another client has stored stores
\* the same URL.
C22_TrailingSeparatorRemoved ==
  (construction.given /\ construction.baseUrl # Undefined) =>
    LET passed == construction.baseUrl.v
        stored == client.baseUrl
    IN /\ ~EndsWith(stored, <<"/">>)
       /\ ~EndsWith(passed, <<"/">>) => stored = passed
       /\ construction.from # <<>> => stored = construction.from[1]

\* the attempts of a call that are in flight: sent and not yet answered
InFlight(c) == c.requests - Len(c.responses)

\* C23: the attempts of one makeRequest call are strictly sequential: at most
\* one of them is in flight at any time, and an attempt after the first is
\* sent only when no attempt is in flight, the one before has failed and the
\* call is waiting in the backoff that followed that failure.
C23_AttemptsSequential ==
  [][\A i \in CallIds :
       LET before == calls[i]
           after == calls'[i]
       IN /\ InFlight(before) \in {0, 1} /\ InFlight(after) \in {0, 1}
          /\ (InFlight(after) = 1) = (after.pc = "request")
          /\ after.requests > before.requests =>
               /\ after.requests = before.requests + 1
               /\ InFlight(before) = 0
               /\ before.requests > 0 =>
                    /\ before.pc = "backoff"
                    /\ ~before.responses[before.requests].ok
                    /\ Len(before.waits) = before.requests]_vars

C23_Witness ==
  /\ calls[1].pc = "request"
  /\ calls[1].requests = 2
  /\ Len(calls[1].responses) = 1
  /\ calls[2].pc = "backoff"
  /\ calls[2].requests = 1

\* the call has settled on a successful attempt, its first one to succeed
SucceededAt(c, k) ==
  /\ c.pc = "done"
  /\ Len(c.responses) = k
  /\ k >= 1
  /\ c.responses[k].ok

\* C24: a call whose attempt k is the first to succeed has issued exactly k
\* attempts and waited the k - 1 backoffs between them, resolves with the body
\* of that response as it was received, surfaces none of the errors of the
\* attempts before, and does nothing more: it sends no attempt and starts no
\* wait afterwards.
C24_FirstSuccessEnds ==
  [][\A i \in CallIds : \A k \in 1..AttemptCap :
       /\ SucceededAt(calls'[i], k) =>
            LET c == calls'[i]
            IN /\ k <= client.retryAttempts
               /\ c.requests = k
               /\ c.attempt = k
               /\ Len(c.waits) = k - 1
               /\ \A j \in 1..(k - 1) : ~c.responses[j].ok
               /\ c.requestOutcome = Resolved(c.responses[k].body)
               /\ c.toolOutcome = Resolved(HealthCheckRender(c.responses[k].body).value)
               /\ \A j \in 1..(k - 1) :
                    ~Contains(c.toolOutcome.value, Interceptor(c.responses[j].error))
       /\ SucceededAt(calls[i], k) => calls'[i] = calls[i]]_vars

C24_Witness ==
  /\ client.retryAttempts = DefaultRetryAttempts
  /\ SucceededAt(calls[1], 2)
  /\ calls[1].requestOutcome.value # EmptyObj
  /\ calls[2].pc = "request"

\* C25 (as stated): every invocation of a registered tool issues at least 1
\* and at most retryAttempts HTTP attempts.
C25_OneToRetryAttempts ==
  (Done /\ toolName \in Registered) =>
    (Len(sent) >= 1 /\ Len(sent) <= client.retryAttempts)

\* C25 (amended): the dispatcher never retries.  An invocation of a registered
\* tool makes at most one call of the client: every attempt sent is an attempt
\* of the one request its handler built, there are no more than retryAttempts
\* of them, and when makeRequest settles the invocation settles with it.  The
\* invocation issues at least one attempt exactly when its handler reaches
\* the call (its arguments are not null) and retryAttempts is at least 1.
C25_DispatcherNeverRetries ==
  toolName \in Registered =>
    LET built == HandlerRequest(handler, params)
    IN /\ \A i \in 1..Len(sent) : ~built.threw /\ sent[i] = built.value
       /\ Len(sent) <= (IF client.retryAttempts > 0 THEN client.retryAttempts ELSE 0)
       /\ Len(sent) <= attempt
       /\ requestOutcome.state # "pending" => (Done /\ toolOutcome.state # "pending")
       /\ requestOutcome.state = "rejected" => Len(sent) = client.retryAttempts
       /\ Done => ((Len(sent) >= 1) = (~built.threw /\ client.retryAttempts >= 1))

C25_Witness ==
  /\ Done
  /\ handler = "multipleAsnTrends"
  /\ client.retryAttempts = 2
  /\ Len(sent) = 2
  /\ requestOutcome.state = "rejected"
  /\ toolOutcome.state = "resolved"

\* an attempt of the invocation was answered with a body that its handler
\* cannot render
RenderFailed ==
  /\ Done
  /\ handler # NoHandler
  /\ Len(sent) >= 1
  /\ requestOutcome.state = "resolved"
  /\ HandlerRender(handler, params, requestOutcome.value).threw

\* C26: when the remote call succeeds and the rendering of its payload fails,
\* the invocation completes in the step in which the payload arrived, with the
\* failure text of its handler that embeds the message of the exception; the
\* attempt that brought the payload is the last request of the invocation:
\* once makeRequest has resolved, nothing is sent before the next invocation.
C26_RenderFailureNotRetried ==
  [][/\ (pc' = "done" /\ handler' # NoHandler /\ Len(sent') >= 1
         /\ requestOutcome'.state = "resolved") =>
          LET rendered == HandlerRender(handler', params', requestOutcome'.value)
          IN rendered.threw =>
               /\ pc = "request"
               /\ sent' = sent
               /\ Len(sent') = attempt'
               /\ waits' = waits
               /\ toolOutcome' =
                    Resolved(<<CrossMark, FailureLabel(handler')>> \o rendered.value)
     /\ requestOutcome.state = "resolved" => (pc' = "idle" /\ sent' = <<>>)]_vars

C26_Witness ==
  /\ RenderFailed
  /\ handler = "asnTrend"
  /\ Get(requestOutcome.value, "trend_data") = JArr(<<PointFull, PointBad>>)
  /\ Len(sent) = 2
  /\ EndsWith(toolOutcome.value, <<"normalized.toFixed is not a function">>)

\* the status codes of the responses tried, as they are printed
StatusTexts == {ToString(e.status) : e \in {r \in AxiosErrors : r.response}}

\* C27: the error makeRequest rejects with is classified by what the failed
\* attempt received.  With a response it is 'NetCores API Error (<status>): '
\* followed by the message field of the body, else its error field, else the
\* message of the transport, and it is not a connection error; with a request
\* sent and no response it is 'NetCores API Connection Error: ' followed by
\* the message of the transport, and it carries no status code.  The failure
\* text of the invocation ends with it.
C27_ClassifiedByResponse ==
  requestOutcome.state = "rejected" =>
    LET surfaced == requestOutcome.reason
        fromBody == IF Truthy(Get(error.data, "message")) THEN <<Get(error.data, "message").v>>
                    ELSE IF Truthy(Get(error.data, "error")) THEN <<Get(error.data, "error").v>>
                    ELSE <<error.message>>
    IN /\ error.response \/ error.request
       /\ error.response =>
            /\ surfaced = <<"NetCores API Error (", ToString(error.status), "): ">> \o fromBody
            /\ Count(surfaced, "NetCores API Connection Error: ") = 0
       /\ ~error.response =>
            /\ surfaced = <<"NetCores API Connection Error: ", error.message>>
            /\ \A k \in 1..Len(surfaced) : surfaced[k] \notin StatusTexts
            /\ Count(surfaced, "NetCores API Error (") = 0
       /\ EndsWith(toolOutcome.value, surfaced)

C27_Witness ==
  /\ Done
  /\ error.response
  /\ Truthy(Get(error.data, "message"))
  /\ Truthy(Get(error.data, "error"))
  /\ requestOutcome = Rejected(<<"NetCores API Error (", "400", "): ", "Invalid ASN">>)

\* C28: an invocation of a registered tool never rejects, whatever its
\* arguments (null and wrongly typed ones included) and whatever the remote
\* service answers: it completes with a text of its handler, and the request
\* handler of the server replies with that text, never with its own
\* 'Error executing <name>' text.
C28_RegisteredToolsResolve ==
  toolName \in Registered =>
    /\ toolOutcome.state \in {"pending", "resolved"}
    /\ Done =>
         /\ toolOutcome.state = "resolved"
         /\ Len(toolOutcome.value) >= 2
         /\ caller = "server" =>
              /\ serverOutcome = TextContent(toolOutcome.value)
              /\ Count(serverOutcome.content[1].text, " Error executing ") = 0

C28_Witness ==
  /\ Done
  /\ caller = "test"
  /\ toolName = "netcores_refresh_data"
  /\ params = Null
  /\ sent = <<>>
  /\ toolOutcome.state = "resolved"
  /\ toolOutcome.value[1] = CrossMark

\* C29: whatever retryAttempts the client was constructed with (0 and
\* negative numbers included), a makeRequest call that has settled has issued
\* at least one HTTP attempt, and it has settled with a response body or with
\* an error, never with undefined.
C29_AtLeastOneAttempt ==
  requestOutcome.state # "pending" =>
    /\ Len(sent) >= 1
    /\ requestOutcome.state = "resolved" => requestOutcome.value # Undefined

\* the invocation failed: its handler threw before its request, its request
\* was rejected, or the body it received could not be rendered
InvocationFailed ==
  \/ HandlerRequest(handler, params).threw
  \/ requestOutcome.state = "rejected"
  \/ /\ requestOutcome.state = "resolved"
     /\ HandlerRender(handler, params, requestOutcome.value).threw

\* C30: the text of a completed invocation of a registered tool starts with
\* the failure marker exactly when the invocation failed: no success text
\* starts with it, whatever status, refresh result or scheduler state the
\* payload reports.
C30_MarkerIffFailed ==
  (Done /\ toolName \in Registered) =>
    /\ toolOutcome.state = "resolved"
    /\ (toolOutcome.value[1] = CrossMark) = InvocationFailed

C30_Witness ==
  /\ Done
  /\ handler = "healthCheck"
  /\ requestOutcome.state = "resolved"
  /\ Get(requestOutcome.value, "status") = JStr("degraded")
  /\ toolOutcome.value[1] = "U+1F3E5"
  /\ toolOutcome.value[3] = CrossMark

====
